---- MODULE Spec2Model ----
(***************************************************************************)
(* The batching renderer of graphics.js (Renderer, SpriteBatch and the     *)
(* part of the WebGL context they drive), as a state machine.              *)
(*                                                                         *)
(* Numbers are integers: every input below is chosen so that the           *)
(* arithmetic of the source (halving a width, scaling a glyph) is exact.   *)
(* A vertex is the 8-tuple <<x, y, u, v, r, g, b, a>> that addVertex       *)
(* writes into the scratch array.                                          *)
(***************************************************************************)
EXTENDS Integers, Sequences, FiniteSets, TLC

VARIABLES
    vertexCount,   \* Renderer.vertexCount (NaN until the first beginGeometry)
    vertices,      \* Renderer.vertices, the CPU scratch array, one slot per vertex
    buffer,        \* contents of the mesh's GPU vertex buffer, one slot per vertex
    boundTexture,  \* texture bound to TEXTURE_2D on unit 0 of the context
    glCalls,       \* context calls issued since the current batch / end() began
    thrown,        \* the last operation ended by raising an error
    buckets,       \* SpriteBatch.buckets, in Map insertion order
    nextId,        \* identity of the next command object addCommand creates
    replayed,      \* calls the last SpriteBatch.end() made itself, in order
    recorded,      \* draw calls made on the SpriteBatch since its last begin()
    expected,      \* vertices an unbounded renderer holds since beginGeometry
    phase,         \* where the caller is in a beginGeometry .. endGeometry batch
    lastOp,        \* name of the last operation the caller invoked
    steps,         \* number of operations invoked so far
    gpu,           \* the context's bindings and the GPU resource wrappers
    gpuOp,         \* the wrapper operation invoked last
    textOp,        \* the text method invoked last, with its result
    fonts,         \* a Font, the array it serialized, the Font read back
    game,          \* the globals of game.js
    shapeOp,       \* the shape emitter invoked last, with its arguments
    flood          \* a call of getAdjacentTilesOfSameType: its locals, its place

vars == <<vertexCount, vertices, buffer, boundTexture, glCalls, thrown,
          buckets, nextId, replayed, recorded, expected, phase, lastOp, steps,
          gpu, gpuOp, textOp, fonts, game, shapeOp, flood>>

batchVars == <<buckets, nextId, replayed, recorded, expected, phase>>

rendererVars == <<vertexCount, vertices, buffer, boundTexture, glCalls, thrown>>

----------------------------------------------------------------------------
(* Bounds and program constants *)

\* Renderer.MAX_VERTICES is 65535 = 3 * 21845 in the source; the model keeps a
\* multiple of 3 and scales it down so that a batch fills within a few calls.
MAX_VERTICES == 6
VERTEX_ELEMENTS == 8

\* 2^24: up to here every integer is a float32 (Float32Array, 24-bit significand)
FLOAT32_EXACT == 16777216

\* game.js
TILES_COLUMNS == 7
TILE_BLOCK == 4
TILE_SIZE == 64
BLUR_ITERATIONS == 4

MaxSteps == 5         \* operations per run of Spec
MaxFillSteps == 8     \* operations per run of SpecFill
MaxBatchSteps == 4    \* operations per run of SpecBatch
MaxGpuSteps == 3      \* operations per run of SpecGpu
MaxTextSteps == 4     \* operations per run of SpecText
MaxFrameSteps == 3    \* handlers run per run of SpecFrame
MaxShapeSteps == 3    \* operations per run of SpecShape
MaxResizes == 2       \* Renderer.resize calls per run of SpecMatrix
MaxSize == 10         \* largest width and height given to Renderer.resize
MaxDeletes == 3       \* delete() calls on one wrapper
MaxCreated == 13      \* GPU objects created in a run of SpecGpu
FloodWidth == 3       \* columns of the tile grid whose tiles vary
MaxFloodCells == 6    \* tiles of the grid that vary, row by row

\* Stands for undefined and for NaN, which is what arithmetic on an undefined
\* vertexCount yields: no count the renderer reaches is negative.
NaN == -1
NoTexture == "none"

ZeroVertex == <<0, 0, 0, 0, 0, 0, 0, 0>>

----------------------------------------------------------------------------
(* Inputs *)

TileTextures == {"tile_dirt", "tile_stone"}
FontTextures == {"font"}

VertexInputs == {<<1, 1, 0, 0, 1, 1, 1, 1>>, <<2, 3, 1, 1, 1, 1, 1, 1>>}

\* ax, ay, au, av, bx, by, bu, bv, cx, cy, cu, cv, r, g, b, a
TriangleInputs ==
    {<<10, 0, 0, 0, 12, 0, 1, 0, 10, 2, 0, 1, 1, 1, 1, 1>>}

\* ax .. av, bx .. bv, cx .. cv, dx .. dv, r, g, b, a
QuadInputs ==
    {<<20, 0, 0, 0, 22, 1, 1, 0, 23, 3, 1, 1, 21, 2, 0, 1, 1, 1, 1, 1>>}

\* x, y, width, height, u0, v0, u1, v1, r, g, b, a
RectangleInputs ==
    {<<30, 4, 2, 2, 0, 0, 1, 1, 1, 1, 1, 1>>}

RectangleOffCenterInputs ==
    {<<0, 0, 2, 2, 0, 0, 1, 1, 1, 1, 1, 1>>}

\* x, y, width, height, angle, u0, v0, u1, v1, r, g, b, a; angle in degrees
RotatedRectangleInputs ==
    {<<40, 8, 4, 2, angle, 0, 0, 1, 1, 1, 1, 1, 1>> : angle \in {0, 90}}

\* charCode -> glyph; code 63 has no glyph
font ==
    [c \in {65, 66} |->
        [charCode |-> c, advance |-> c - 63,
         planeLeft |-> 0, planeBottom |-> 2, planeRight |-> c - 64, planeTop |-> 0,
         atlasLeft |-> c - 65, atlasBottom |-> 1, atlasRight |-> c - 64, atlasTop |-> 0]]

CharCodes == {65, 66, 63}

\* font, x, y, charCode, size, r, g, b, a
CharInputs == {<<font, 50, 0, c, 2, 1, 1, 1, 1>> : c \in {65, 63}}

\* font, x, y, str, size, r, g, b, a
StringInputs == {<<font, 60, 0, <<65, 63, 66>>, 2, 1, 1, 1, 1>>}

----------------------------------------------------------------------------
(* The renderer and the context as one record, so that a call chain composes *)

Here ==
    [vertexCount |-> vertexCount, vertices |-> vertices, buffer |-> buffer,
     boundTexture |-> boundTexture, glCalls |-> glCalls, thrown |-> thrown,
     replayed |-> replayed]

Becomes(w) ==
    /\ vertexCount' = w.vertexCount
    /\ vertices' = w.vertices
    /\ buffer' = w.buffer
    /\ boundTexture' = w.boundTexture
    /\ glCalls' = w.glCalls
    /\ thrown' = w.thrown
    /\ replayed' = w.replayed

\* The caller starts an operation: nothing is pending from the previous one.
Fresh(w) == [w EXCEPT !.thrown = FALSE]

----------------------------------------------------------------------------
(* The WebGL context calls the renderer issues *)

\* Buffer.setDataRange: bufferSubData(type, offset, data, 0, count) copies the
\* first `count` floats of `data` to the start of the buffer.  A count that
\* is not a number converts to 0, and a length of 0 means the whole of `data`.
setDataRange(w, data, offset, count) ==
    LET n == IF count = NaN \/ count = 0 THEN Len(data)
             ELSE count \div VERTEX_ELEMENTS
    IN  [w EXCEPT
            !.buffer = [i \in 1..Len(@) |-> IF i <= n THEN data[i] ELSE @[i]],
            !.glCalls = Append(@, [call |-> "bufferSubData", offset |-> offset,
                                   count |-> count])]

\* VertexArray.draw: drawArrays(TRIANGLES, 0, vertexCount) rasterises the first
\* vertexCount vertices of the buffer as it is at the time of the call.
VertexArray_draw(w, count) ==
    [w EXCEPT !.glCalls = Append(@, [call |-> "drawArrays", count |-> count,
                                     covers |-> SubSeq(w.buffer, 1, count)])]

Mesh_draw_capacity(w, count) == VertexArray_draw(w, MAX_VERTICES)

\* Mesh.draw(vertexCount = null): vertexCount || this.vertexCount, and the
\* renderer's mesh is built with capacity MAX_VERTICES.
Mesh_draw(w, count) ==
    VertexArray_draw(w, IF count = NaN \/ count = 0 THEN MAX_VERTICES ELSE count)

\* Texture.bind(0)
Texture_bind(w, texture) ==
    [w EXCEPT !.boundTexture = texture,
              !.glCalls = Append(@, [call |-> "bindTexture", texture |-> texture])]

----------------------------------------------------------------------------
(* Renderer *)

beginGeometry(w) ==
    IF w.thrown THEN w ELSE [w EXCEPT !.vertexCount = 0]

\* endGeometry returns undefined, not the renderer, when there is nothing to draw
endGeometryReturnsThis(w) == w.vertexCount # 0

endGeometry_unchecked(w) ==
    IF w.thrown THEN w
    ELSE LET count == IF w.vertexCount = NaN THEN NaN
                      ELSE VERTEX_ELEMENTS * w.vertexCount
         IN  Mesh_draw(setDataRange(w, w.vertices, 0, count), w.vertexCount)

endGeometry(w) ==
    IF w.thrown \/ w.vertexCount = 0 THEN w
    ELSE LET count == IF w.vertexCount = NaN THEN NaN
                      ELSE VERTEX_ELEMENTS * w.vertexCount
         IN  Mesh_draw(setDataRange(w, w.vertices, 0, count), w.vertexCount)

\* A write past the end of a typed array, or at an index that is not a number,
\* is dropped; the count is incremented all the same (NaN stays NaN).
addVertex(w, v) ==
    IF w.thrown THEN w
    ELSE IF w.vertexCount = NaN THEN w
    ELSE [w EXCEPT
            !.vertices = IF w.vertexCount < Len(@)
                         THEN [@ EXCEPT ![w.vertexCount + 1] = v] ELSE @,
            !.vertexCount = @ + 1]

MustFlush_late(w) ==
    w.vertexCount # NaN /\ w.vertexCount >= MAX_VERTICES

\* vertexCount + 3 >= MAX_VERTICES; a comparison with NaN is false
MustFlush(w) ==
    w.vertexCount # NaN /\ w.vertexCount + 3 >= MAX_VERTICES

Flush_undrawn(w) == beginGeometry(w)

\* this.endGeometry().beginGeometry(): a call on undefined raises a TypeError
Flush(w) ==
    IF w.thrown THEN w
    ELSE IF endGeometryReturnsThis(w) THEN beginGeometry(endGeometry(w))
    ELSE [endGeometry(w) EXCEPT !.thrown = TRUE]

drawTriangle_lateCheck(w, p) ==
    LET first == addVertex(w, <<p[1], p[2], p[3], p[4], p[13], p[14], p[15], p[16]>>)
        f == IF ~first.thrown /\ MustFlush(first) THEN Flush(first) ELSE first
    IN  addVertex(addVertex(f,
            <<p[5], p[6], p[7], p[8], p[13], p[14], p[15], p[16]>>),
            <<p[9], p[10], p[11], p[12], p[13], p[14], p[15], p[16]>>)

\* drawTriangle: the capacity check, then the three vertices
drawTriangle(w, p) ==
    LET f == IF ~w.thrown /\ MustFlush(w) THEN Flush(w) ELSE w
    IN  addVertex(addVertex(addVertex(f,
            <<p[1], p[2], p[3], p[4], p[13], p[14], p[15], p[16]>>),
            <<p[5], p[6], p[7], p[8], p[13], p[14], p[15], p[16]>>),
            <<p[9], p[10], p[11], p[12], p[13], p[14], p[15], p[16]>>)

drawQuad_strip(w, p) ==
    drawTriangle(
        drawTriangle(w,
            <<p[1], p[2], p[3], p[4], p[5], p[6], p[7], p[8],
              p[9], p[10], p[11], p[12], p[17], p[18], p[19], p[20]>>),
        <<p[5], p[6], p[7], p[8], p[9], p[10], p[11], p[12],
          p[13], p[14], p[15], p[16], p[17], p[18], p[19], p[20]>>)

\* drawQuad: drawTriangle(a, b, c) then drawTriangle(a, c, d)
drawQuad(w, p) ==
    drawTriangle(
        drawTriangle(w,
            <<p[1], p[2], p[3], p[4], p[5], p[6], p[7], p[8],
              p[9], p[10], p[11], p[12], p[17], p[18], p[19], p[20]>>),
        <<p[1], p[2], p[3], p[4], p[9], p[10], p[11], p[12],
          p[13], p[14], p[15], p[16], p[17], p[18], p[19], p[20]>>)

\* The quad the four corners a, b, c, d make with the u/v rectangle and colour
\* of a rectangle call: (a, u0, v0), (b, u1, v0), (c, u1, v1), (d, u0, v1).
CornersQuad(ax, ay, bx, by, cx, cy, dx, dy, u0, v0, u1, v1, r, g, b, a) ==
    <<ax, ay, u0, v0, bx, by, u1, v0, cx, cy, u1, v1, dx, dy, u0, v1, r, g, b, a>>

RectangleQuad(p) ==
    LET x == p[1]  y == p[2]  width == p[3]  height == p[4]
    IN  CornersQuad(x, y, x + width, y, x + width, y + height, x, y + height,
                    p[5], p[6], p[7], p[8], p[9], p[10], p[11], p[12])

drawRectangle(w, p) == drawQuad(w, RectangleQuad(p))

RectangleOffCenterQuad(p) ==
    LET x == p[1]  y == p[2]
        halfWidth == p[3] \div 2
        halfHeight == p[4] \div 2
    IN  CornersQuad(x - halfWidth, y - halfHeight, x + halfWidth, y - halfHeight,
                    x + halfWidth, y + halfHeight, x - halfWidth, y + halfHeight,
                    p[5], p[6], p[7], p[8], p[9], p[10], p[11], p[12])

drawRectangleOffCenter(w, p) == drawQuad(w, RectangleOffCenterQuad(p))

\* Math.sin / Math.cos of an angle given in degrees, exact at the quarter turns
Sin(angle) == CASE angle = 0 -> 0 [] angle = 90 -> 1 [] angle = 180 -> 0 [] angle = 270 -> -1
Cos(angle) == CASE angle = 0 -> 1 [] angle = 90 -> 0 [] angle = 180 -> -1 [] angle = 270 -> 0

RotatedRectangleQuad_transposed(p) ==
    LET x == p[1]  y == p[2]
        halfWidth == p[3] \div 2
        halfHeight == p[4] \div 2
        sinA == Sin(p[5])
        cosA == Cos(p[5])
        ax0 == -halfWidth   ay0 == -halfHeight
        bx0 == halfWidth    by0 == -halfHeight
        cx0 == halfWidth    cy0 == halfHeight
        dx0 == -halfWidth   dy0 == halfHeight
    IN  CornersQuad(x + sinA * ax0 - cosA * ay0, y + cosA * ax0 + sinA * ay0,
                    x + sinA * bx0 - cosA * by0, y + cosA * bx0 + sinA * by0,
                    x + sinA * cx0 - cosA * cy0, y + cosA * cx0 + sinA * cy0,
                    x + sinA * dx0 - cosA * dy0, y + cosA * dx0 + sinA * dy0,
                    p[6], p[7], p[8], p[9], p[10], p[11], p[12], p[13])

RotatedRectangleQuad(p) ==
    LET x == p[1]  y == p[2]
        halfWidth == p[3] \div 2
        halfHeight == p[4] \div 2
        sinA == Sin(p[5])
        cosA == Cos(p[5])
        ax0 == -halfWidth   ay0 == -halfHeight
        bx0 == halfWidth    by0 == -halfHeight
        cx0 == halfWidth    cy0 == halfHeight
        dx0 == -halfWidth   dy0 == halfHeight
    IN  CornersQuad(x + cosA * ax0 - sinA * ay0, y + sinA * ax0 + cosA * ay0,
                    x + cosA * bx0 - sinA * by0, y + sinA * bx0 + cosA * by0,
                    x + cosA * cx0 - sinA * cy0, y + sinA * cx0 + cosA * cy0,
                    x + cosA * dx0 - sinA * dy0, y + sinA * dx0 + cosA * dy0,
                    p[6], p[7], p[8], p[9], p[10], p[11], p[12], p[13])

drawRotatedRectangleOffCenter(w, p) == drawQuad(w, RotatedRectangleQuad(p))

\* font.glyphs[charCode] is undefined for a code the font has no glyph for
HasGlyph(f, charCode) == charCode \in DOMAIN f

\* The rectangle drawChar draws for a glyph the font has
CharRectangle(p) ==
    LET glyph == p[1][p[4]]
        x == p[2]  y == p[3]  size == p[5]
    IN  <<x + size * glyph.planeLeft,
          y + size * glyph.planeTop,
          size * (glyph.planeRight - glyph.planeLeft),
          size * (glyph.planeBottom - glyph.planeTop),
          glyph.atlasLeft, glyph.atlasTop, glyph.atlasRight, glyph.atlasBottom,
          p[6], p[7], p[8], p[9]>>

drawChar(w, p) ==
    IF ~HasGlyph(p[1], p[4]) THEN w ELSE drawRectangle(w, CharRectangle(p))

\* The loop of drawString from character i on, the pen being at `offset`
RECURSIVE drawStringFrom(_, _, _, _)
drawStringFrom(w, p, i, offset) ==
    LET f == p[1]  str == p[4]  size == p[5]
    IN  IF i > Len(str) THEN w
        ELSE IF ~HasGlyph(f, str[i]) THEN drawStringFrom(w, p, i + 1, offset)
        ELSE drawStringFrom(
                drawChar(w, <<f, p[2] + offset, p[3], str[i], size,
                              p[6], p[7], p[8], p[9]>>),
                p, i + 1, offset + size * f[str[i]].advance)

\* draws the glyph of code 65 for a character without a glyph
drawString_fallback(w, p) ==
    drawStringFrom(w, [p EXCEPT ![4] = [i \in 1..Len(p[4]) |->
                          IF HasGlyph(p[1], p[4][i]) THEN p[4][i] ELSE 65]],
                   1, 0)

drawString(w, p) == drawStringFrom(w, p, 1, 0)

RECURSIVE measureStringFrom(_, _, _, _, _)
measureStringFrom(f, str, size, i, width) ==
    IF i > Len(str) THEN width
    ELSE IF ~HasGlyph(f, str[i]) THEN measureStringFrom(f, str, size, i + 1, width)
    ELSE measureStringFrom(f, str, size, i + 1, width + size * f[str[i]].advance)

\* stops at the first character without a glyph
measureString_break(f, str, size) ==
    LET unknown == {i \in 1..Len(str) : ~HasGlyph(f, str[i])}
        first == CHOOSE i \in unknown : \A j \in unknown : i <= j
    IN  measureStringFrom(f, IF unknown = {} THEN str
                             ELSE SubSeq(str, 1, first - 1), size, 1, 0)

measureString(f, str, size) == measureStringFrom(f, str, size, 1, 0)

drawStringOffCenter_left(w, p) == drawString(w, p)

\* x - width / 2: the inputs keep the measured width even
drawStringOffCenter(w, p) ==
    LET width == measureString(p[1], p[4], p[5])
    IN  drawString(w, <<p[1], p[2] - width \div 2, p[3], p[4], p[5],
                        p[6], p[7], p[8], p[9]>>)

----------------------------------------------------------------------------
(* SpriteBatch *)

HasBucket(b, texture) == \E i \in 1..Len(b) : b[i].texture = texture

BucketIndex(b, texture) == CHOOSE i \in 1..Len(b) : b[i].texture = texture

addCommand_unshift(b, texture, command) ==
    IF HasBucket(b, texture)
    THEN [b EXCEPT ![BucketIndex(b, texture)].commands = <<command>> \o @]
    ELSE Append(b, [texture |-> texture, commands |-> <<command>>])

addCommand_newBucket(b, texture, command) ==
    Append(b, [texture |-> texture, commands |-> <<command>>])

addCommand_newFirst(b, texture, command) ==
    IF HasBucket(b, texture)
    THEN [b EXCEPT ![BucketIndex(b, texture)].commands = Append(@, command)]
    ELSE <<[texture |-> texture, commands |-> <<command>>]>> \o b

\* addCommand: push onto the texture's bucket, or create it after the others
addCommand(b, texture, command) ==
    IF HasBucket(b, texture)
    THEN [b EXCEPT ![BucketIndex(b, texture)].commands = Append(@, command)]
    ELSE Append(b, [texture |-> texture, commands |-> <<command>>])

\* this.renderer[name](...args)
Dispatch(w, name, args) ==
    CASE name = "drawTriangle" -> drawTriangle(w, args)
      [] name = "drawQuad" -> drawQuad(w, args)
      [] name = "drawRectangle" -> drawRectangle(w, args)
      [] name = "drawRectangleOffCenter" -> drawRectangleOffCenter(w, args)
      [] name = "drawRotatedRectangleOffCenter" -> drawRotatedRectangleOffCenter(w, args)
      [] name = "drawChar" -> drawChar(w, args)
      [] name = "drawString" -> drawString(w, args)
      [] name = "drawStringOffCenter" -> drawStringOffCenter(w, args)

Note(w, entry) == [w EXCEPT !.replayed = Append(@, entry)]

\* for (const { name, args } of commands) this.renderer[name](...args)
RECURSIVE ReplayFrom(_, _, _)
ReplayFrom(w, commands, i) ==
    IF w.thrown \/ i > Len(commands) THEN w
    ELSE ReplayFrom(
            Dispatch(Note(w, [call |-> commands[i].name, id |-> commands[i].id,
                              args |-> commands[i].args]),
                     commands[i].name, commands[i].args),
            commands, i + 1)

EndBucket_unclosed(w, bucket) ==
    LET bound == Texture_bind(Note(w, [call |-> "bind", id |-> 0,
                                       args |-> <<bucket.texture>>]),
                              bucket.texture)
        begun == beginGeometry(Note(bound, [call |-> "beginGeometry", id |-> 0,
                                            args |-> <<>>]))
    IN  ReplayFrom(begun, bucket.commands, 1)

EndBucket_lateBind(w, bucket) ==
    LET begun == beginGeometry(Note(w, [call |-> "beginGeometry", id |-> 0,
                                        args |-> <<>>]))
        drawn == ReplayFrom(begun, bucket.commands, 1)
        bound == Texture_bind(Note(drawn, [call |-> "bind", id |-> 0,
                                           args |-> <<bucket.texture>>]),
                              bucket.texture)
    IN  IF drawn.thrown THEN drawn
        ELSE endGeometry(Note(bound, [call |-> "endGeometry", id |-> 0,
                                      args |-> <<>>]))

\* The body of the loop of end() for one bucket
EndBucket(w, bucket) ==
    LET bound == Texture_bind(Note(w, [call |-> "bind", id |-> 0,
                                       args |-> <<bucket.texture>>]),
                              bucket.texture)
        begun == beginGeometry(Note(bound, [call |-> "beginGeometry", id |-> 0,
                                            args |-> <<>>]))
        drawn == ReplayFrom(begun, bucket.commands, 1)
    IN  IF drawn.thrown THEN drawn
        ELSE endGeometry(Note(drawn, [call |-> "endGeometry", id |-> 0,
                                      args |-> <<>>]))

\* for (const [texture, commands] of this.buckets.entries())
RECURSIVE EndFrom(_, _, _)
EndFrom(w, b, i) ==
    IF w.thrown \/ i > Len(b) THEN w
    ELSE EndFrom(EndBucket(w, b[i]), b, i + 1)

end(w, b) == EndFrom(w, b, 1)

----------------------------------------------------------------------------
(* The vertex list an unbounded renderer accumulates: no capacity, no flush *)

RefTriangle(p) ==
    << <<p[1], p[2], p[3], p[4], p[13], p[14], p[15], p[16]>>,
       <<p[5], p[6], p[7], p[8], p[13], p[14], p[15], p[16]>>,
       <<p[9], p[10], p[11], p[12], p[13], p[14], p[15], p[16]>> >>

RefQuad(p) ==
    RefTriangle(<<p[1], p[2], p[3], p[4], p[5], p[6], p[7], p[8],
                  p[9], p[10], p[11], p[12], p[17], p[18], p[19], p[20]>>)
    \o RefTriangle(<<p[1], p[2], p[3], p[4], p[9], p[10], p[11], p[12],
                     p[13], p[14], p[15], p[16], p[17], p[18], p[19], p[20]>>)

\* The vertices the draw calls of a log cover, in draw-call order
RECURSIVE Drawn(_)
Drawn(log) ==
    IF log = <<>> THEN <<>>
    ELSE (IF Head(log).call = "drawArrays" THEN Head(log).covers ELSE <<>>)
         \o Drawn(Tail(log))

Count(log, name) == Cardinality({i \in 1..Len(log) : log[i].call = name})

----------------------------------------------------------------------------
(* The GPU resource wrappers: Renderbuffer, Framebuffer, Shader,            *)
(* ShaderProgram, Texture, Buffer, VertexArray                              *)
(*                                                                          *)
(* A wrapper object is named by a pair <<class, n>>; the GPU object its     *)
(* constructor creates carries the same pair, so a live wrapper's handle    *)
(* is its own name. g is the context together with the wrapper objects.     *)

Null == <<"null", 0>>
Undefined == <<"undefined", 0>>

\* The context before any wrapper is constructed
NoWrappers ==
    [ objs |-> << >>,            \* wrapper objects: handle, width, height, ...
      created |-> 0,             \* GPU objects created so far
      bound |-> [ framebuffer |-> Null, readFramebuffer |-> Null,
                  activeTexture |-> 0, textures |-> <<Null, Null>>,
                  renderbuffer |-> Null, arrayBuffer |-> Null,
                  vertexArray |-> Null, program |-> Null,
                  viewport |-> <<0, 0>> ],
      calls |-> << >>,           \* context calls of the operation under way
      freed |-> << >>,           \* handles the deletion primitives were given
      deletes |-> << >>,         \* wrappers whose delete() was called, in order
      attached |-> << >>,        \* <<framebuffer, resource>> of each attach call
      thrown |-> FALSE,
      message |-> << >> ]

GlCall(call, target, h, h2, nums) ==
    [call |-> call, target |-> target, h |-> h, h2 |-> h2, nums |-> nums]

CreationPrimitives ==
    {"createRenderbuffer", "createFramebuffer", "createShader",
     "createProgram", "createTexture", "createBuffer", "createVertexArray"}

DeletionPrimitives ==
    {"deleteRenderbuffer", "deleteFramebuffer", "deleteShader",
     "deleteProgram", "deleteTexture", "deleteBuffer", "deleteVertexArray"}

\* What a call does to the state of the WebGL2 context
Rebound(bound, c) ==
    CASE c.call = "bindFramebuffer" /\ c.target = "FRAMEBUFFER" ->
            [bound EXCEPT !.framebuffer = c.h, !.readFramebuffer = c.h]
      [] c.call = "bindFramebuffer" /\ c.target = "DRAW_FRAMEBUFFER" ->
            [bound EXCEPT !.framebuffer = c.h]
      [] c.call = "bindFramebuffer" /\ c.target = "READ_FRAMEBUFFER" ->
            [bound EXCEPT !.readFramebuffer = c.h]
      [] c.call = "activeTexture" -> [bound EXCEPT !.activeTexture = c.nums[1]]
      [] c.call = "bindTexture" ->
            [bound EXCEPT !.textures[bound.activeTexture + 1] = c.h]
      [] c.call = "bindRenderbuffer" -> [bound EXCEPT !.renderbuffer = c.h]
      [] c.call = "bindBuffer" -> [bound EXCEPT !.arrayBuffer = c.h]
      [] c.call = "bindVertexArray" -> [bound EXCEPT !.vertexArray = c.h]
      [] c.call = "useProgram" -> [bound EXCEPT !.program = c.h]
      [] c.call = "viewport" -> [bound EXCEPT !.viewport = c.nums]
      [] c.call \in DeletionPrimitives \ {"deleteProgram", "deleteShader"}
            /\ c.h # Null ->
            \* a deleted object leaves the binding points it was bound to
            LET Left(h) == IF h = c.h THEN Null ELSE h
            IN  [bound EXCEPT !.framebuffer = Left(@),
                              !.readFramebuffer = Left(@),
                              !.textures = <<Left(@[1]), Left(@[2])>>,
                              !.renderbuffer = Left(@),
                              !.arrayBuffer = Left(@),
                              !.vertexArray = Left(@)]
      [] OTHER -> bound

\* context.<call>(...): a call made after an error was raised is not made
Context(g, c) ==
    IF g.thrown THEN g
    ELSE [g EXCEPT !.calls = Append(@, c),
                   !.created = IF c.call \in CreationPrimitives
                               THEN @ + 1 ELSE @,
                   !.bound = Rebound(@, c),
                   !.freed = IF c.call \in DeletionPrimitives /\ c.h # Null
                             THEN Append(@, c.h) ELSE @]

Gl(g, call, h) == Context(g, GlCall(call, "", h, Null, << >>))

\* The state an operation starts from: nothing called, nothing raised
Quiet(g) == [g EXCEPT !.calls = << >>, !.thrown = FALSE, !.message = << >>]

Handle(g, id) == g.objs[id].handle

NewId(g, class) == <<class, g.created + 1>>

Constructed(g, id, width, height) ==
    [g EXCEPT !.objs = (id :> [handle |-> id, width |-> width,
                                 height |-> height, attachment |-> Undefined,
                                 uniformLocationCache |-> {}]) @@ @]

Times(seq, x) == Len(SelectSeq(seq, LAMBDA e : e = x))

DeleteHandle_dangling(g, id, primitive) ==
    LET d == [g EXCEPT !.deletes = Append(@, id)]
    IN  IF Times(g.deletes, id) = 0 THEN Gl(d, primitive, Handle(g, id)) ELSE d

\* if (handle !== null) { context.delete...(handle); this.handle = null; }
DeleteHandle_unguarded(g, id, primitive) ==
    LET d == [g EXCEPT !.deletes = Append(@, id)]
    IN  [Gl(d, primitive, Handle(g, id)) EXCEPT !.objs[id].handle = Null]

DeleteHandle(g, id, primitive) ==
    LET d == [g EXCEPT !.deletes = Append(@, id)]
    IN  IF Handle(g, id) # Null
        THEN [Gl(d, primitive, Handle(g, id)) EXCEPT !.objs[id].handle = Null]
        ELSE d

\* The delete() of the class a wrapper belongs to
Delete(g, id) ==
    CASE id[1] = "Renderbuffer" -> DeleteHandle(g, id, "deleteRenderbuffer")
      [] id[1] = "Framebuffer" -> DeleteHandle(g, id, "deleteFramebuffer")
      [] id[1] = "Shader" -> DeleteHandle(g, id, "deleteShader")
      [] id[1] = "ShaderProgram" -> DeleteHandle(g, id, "deleteProgram")
      [] id[1] = "Texture" -> DeleteHandle(g, id, "deleteTexture")
      [] id[1] = "Buffer" -> DeleteHandle(g, id, "deleteBuffer")
      [] id[1] = "VertexArray" -> DeleteHandle(g, id, "deleteVertexArray")

(* Renderbuffer *)

Renderbuffer_bind(g, id) == Gl(g, "bindRenderbuffer", Handle(g, id))

(* Texture *)

Texture_bindUnit(g, id, textureUnit) ==
    LET a == Context(g, GlCall("activeTexture", "", Null, Null,
                               <<textureUnit>>))
    IN  Gl(a, "bindTexture", Handle(g, id))

Texture_setParameter(g, id) ==
    Gl(Texture_bindUnit(g, id, 0), "texParameteri", Null)

(* Framebuffer *)

Framebuffer_bind(g, id) ==
    Context(g, GlCall("bindFramebuffer", "FRAMEBUFFER", Handle(g, id), Null,
                      << >>))

Framebuffer_unbind(g, id) ==
    Context(g, GlCall("bindFramebuffer", "FRAMEBUFFER", Null, Null, << >>))

\* texture.bind() or renderbuffer.bind()
BindResource(g, resource) ==
    IF resource[1] = "Texture" THEN Texture_bindUnit(g, resource, 0)
    ELSE Renderbuffer_bind(g, resource)

Attach_leak(g, id, resource, call) ==
    LET a == Framebuffer_bind(g, id)
        c == Gl(BindResource(a, resource), call, Handle(g, resource))
        d == [c EXCEPT !.objs[id].attachment = resource,
                       !.attached = Append(@, <<id, resource>>)]
    IN  Framebuffer_unbind(d, id)

\* The body the two attach methods share: bind, bind the resource, attach
\* it, remember it, unbind, delete what was attached before
\* (attachment?.delete() does nothing while the field is undefined)
Attach(g, id, resource, call) ==
    LET attachment == g.objs[id].attachment
        a == Framebuffer_bind(g, id)
        c == Gl(BindResource(a, resource), call, Handle(g, resource))
        d == [c EXCEPT !.objs[id].attachment = resource,
                       !.attached = Append(@, <<id, resource>>)]
        e == Framebuffer_unbind(d, id)
    IN  IF attachment = Undefined THEN e ELSE Delete(e, attachment)

Framebuffer_attachTexture(g, id, texture) ==
    Attach(g, id, texture, "framebufferTexture2D")

Framebuffer_attachRenderbuffer(g, id, renderbuffer) ==
    Attach(g, id, renderbuffer, "framebufferRenderbuffer")

Framebuffer_resize(g, id, width, height) ==
    LET a == Framebuffer_bind(g, id)
        b == Context(a, GlCall("viewport", "", Null, Null, <<width, height>>))
        c == Framebuffer_unbind(b, id)
    IN  [c EXCEPT !.objs[id].width = width, !.objs[id].height = height]

Framebuffer_blit(g, id, framebuffer) ==
    LET a == Context(g, GlCall("bindFramebuffer", "READ_FRAMEBUFFER",
                               Handle(g, id), Null, << >>))
        b == Context(a, GlCall("bindFramebuffer", "DRAW_FRAMEBUFFER",
                               Handle(g, framebuffer), Null, << >>))
        c == Context(b, GlCall("blitFramebuffer", "", b.bound.readFramebuffer,
                               b.bound.framebuffer,
                               <<g.objs[id].width, g.objs[id].height,
                                 g.objs[framebuffer].width,
                                 g.objs[framebuffer].height>>))
        d == Context(c, GlCall("bindFramebuffer", "READ_FRAMEBUFFER", Null,
                               Null, << >>))
    IN  Context(d, GlCall("bindFramebuffer", "DRAW_FRAMEBUFFER", Null, Null,
                          << >>))

(* Buffer *)

Buffer_bind(g, id) == Gl(g, "bindBuffer", Handle(g, id))

Buffer_setData(g, id) == Gl(Buffer_bind(g, id), "bufferData", Null)

(* VertexArray *)

VertexArray_bind(g, id) == Gl(g, "bindVertexArray", Handle(g, id))

VertexArray_unnbind(g, id) == Gl(g, "bindVertexArray", Null)

VertexArray_drawBound(g, id, count) ==
    LET a == VertexArray_bind(g, id)
        b == Context(a, GlCall("drawArrays", "", a.bound.vertexArray, Null,
                               <<count>>))
    IN  VertexArray_unnbind(b, id)

(* Shader and ShaderProgram *)

Raise(g, prefix, diagnostic) ==
    [g EXCEPT !.thrown = TRUE, !.message = <<prefix, diagnostic>>]

\* new Shader(context, type, source): compiles and infoLog are what the
\* context answers to getShaderParameter(COMPILE_STATUS) and
\* getShaderInfoLog for this source
NewShader(g, type, compiles, infoLog) ==
    LET id == NewId(g, "Shader")
        a == Context(g, GlCall("createShader", type, id, Null, << >>))
        b == Gl(a, "shaderSource", id)
        c == Gl(b, "compileShader", id)
        d == Gl(c, "getShaderParameter", id)
    IN  IF g.thrown THEN g
        ELSE IF ~compiles
        THEN Raise(Gl(d, "getShaderInfoLog", id),
                   "Can't compile shader: ", infoLog)
        ELSE Constructed(d, id, 0, 0)

NewShaderProgram_lenient(g, vertexCompiles, fragmentCompiles, links, infoLog) ==
    LET vertexShader == NewId(g, "Shader")
        v == [NewShader(g, "VERTEX_SHADER", vertexCompiles, infoLog)
                 EXCEPT !.thrown = FALSE]
        fragmentShader == NewId(v, "Shader")
        f == [NewShader(v, "FRAGMENT_SHADER", fragmentCompiles, infoLog)
                 EXCEPT !.thrown = FALSE]
        id == NewId(f, "ShaderProgram")
        a == Gl(f, "createProgram", id)
        b == Context(a, GlCall("attachShader", "", id, vertexShader, << >>))
        c == Context(b, GlCall("attachShader", "", id, fragmentShader, << >>))
        d == Gl(c, "linkProgram", id)
    IN  Constructed(d, id, 0, 0)

\* program = createProgram(); attach both shaders; link; on failure raise
\* with the info log, otherwise delete the two shaders
Link(f, vertexShader, fragmentShader, links, infoLog) ==
    LET id == NewId(f, "ShaderProgram")
        a == Gl(f, "createProgram", id)
        b == Context(a, GlCall("attachShader", "", id,
                               Handle(f, vertexShader), << >>))
        c == Context(b, GlCall("attachShader", "", id,
                               Handle(f, fragmentShader), << >>))
        d == Gl(c, "linkProgram", id)
        e == Gl(d, "getProgramParameter", id)
    IN  IF ~links
        THEN Raise(Gl(e, "getProgramInfoLog", id),
                   "Can't link shader program: ", infoLog)
        ELSE Constructed(Delete(Delete(e, vertexShader), fragmentShader),
                         id, 0, 0)

\* new ShaderProgram(context, vertexShaderSource, fragmentShaderSource): the
\* vertex shader, then the fragment shader (the object created last), then
\* the program
NewShaderProgram(g, vertexCompiles, fragmentCompiles, links, infoLog) ==
    CHOOSE made \in
        { IF f.thrown THEN f
          ELSE Link(f, NewId(g, "Shader"), <<"Shader", f.created>>, links,
                    infoLog) :
            f \in { NewShader(v, "FRAGMENT_SHADER", fragmentCompiles, infoLog) :
                       v \in {NewShader(g, "VERTEX_SHADER", vertexCompiles,
                                        infoLog)} } } : TRUE

ShaderProgram_bind(g, id) == Gl(g, "useProgram", Handle(g, id))

\* A cached location is returned without asking the context; the context
\* refuses a null program with a TypeError
getUniformLocation(g, id, name) ==
    IF g.thrown \/ name \in g.objs[id].uniformLocationCache THEN g
    ELSE IF Handle(g, id) = Null THEN Raise(g, "TypeError", "")
    ELSE [Gl(g, "getUniformLocation", Handle(g, id))
             EXCEPT !.objs[id].uniformLocationCache = @ \cup {name}]

\* isBoolean: typeof value === 'boolean'
ShaderProgram_setUniform(g, id, name, isBoolean, value) ==
    Context(getUniformLocation(ShaderProgram_bind(g, id), id, name),
            IF isBoolean
            THEN GlCall("uniform1i", name, Null, Null,
                        <<IF value THEN 1 ELSE 0>>)
            ELSE GlCall("uniform1f", name, Null, Null, <<value>>))

ShaderProgram_setUniformInteger(g, id, name, value) ==
    Context(getUniformLocation(ShaderProgram_bind(g, id), id, name),
            GlCall("uniform1i", name, Null, Null, <<value>>))

\* The matrix sent is renderer.matrix, which the context does not interpret
ShaderProgram_setUniformMatrix(g, id, name) ==
    Context(getUniformLocation(ShaderProgram_bind(g, id), id, name),
            GlCall("uniformMatrix4fv", name, Null, Null, << >>))

(* Constructors of the resources game.js creates *)

\* new Renderbuffer(context, width, height)
NewRenderbuffer(g, width, height) ==
    LET id == NewId(g, "Renderbuffer")
        a == Gl(Gl(g, "createRenderbuffer", id), "bindRenderbuffer", id)
        b == Context(a, GlCall("renderbufferStorageMultisample", "", Null, Null,
                               <<width, height>>))
    IN  Constructed(b, id, width, height)

\* new Texture(context, TEXTURE_2D, width, height, internalFormat): unit 0 is
\* made active, storage is allocated, five parameters are set
NewTexture(g, width, height) ==
    LET id == NewId(g, "Texture")
        a == Context(Gl(g, "createTexture", id),
                     GlCall("activeTexture", "", Null, Null, <<0>>))
        b == Context(Gl(a, "bindTexture", id),
                     GlCall("texImage2D", "", Null, Null, <<width, height>>))
        P(c) == Gl(c, "texParameteri", Null)
    IN  Constructed(P(P(P(P(P(b))))), id, width, height)

\* texture.setImage(image)
Texture_setImage(g, id) ==
    Gl(Gl(Gl(Texture_bindUnit(g, id, 0), "texSubImage2D", Null),
          "texParameteri", Null), "generateMipmap", Null)

\* new Framebuffer(context, width, height)
NewFramebuffer(g, width, height) ==
    LET id == NewId(g, "Framebuffer")
        a == Context(Gl(g, "createFramebuffer", id),
                     GlCall("bindFramebuffer", "FRAMEBUFFER", id, Null, << >>))
        b == Context(a, GlCall("viewport", "", Null, Null, <<width, height>>))
        c == Context(b, GlCall("bindFramebuffer", "FRAMEBUFFER", Null, Null,
                               << >>))
    IN  Constructed(c, id, width, height)

\* new Renderer(context, width, height): the Mesh is a Buffer and a
\* VertexArray of three attributes; blending is switched on
NewRenderer(g) ==
    LET vertexBuffer == NewId(g, "Buffer")
        a == Gl(Gl(Gl(g, "createBuffer", vertexBuffer),
                   "bindBuffer", vertexBuffer), "bufferData", Null)
        b == Constructed(a, vertexBuffer, 0, 0)
        vertexArray == NewId(b, "VertexArray")
        c == Buffer_bind(Gl(Gl(b, "createVertexArray", vertexArray),
                            "bindVertexArray", vertexArray), vertexBuffer)
        A(d, i) == Context(Context(d, GlCall("enableVertexAttribArray", "",
                                             Null, Null, <<i>>)),
                           GlCall("vertexAttribPointer", "", Null, Null, <<i>>))
        e == Gl(A(A(A(c, 0), 1), 2), "bindVertexArray", Null)
    IN  Gl(Gl(Constructed(e, vertexArray, 0, 0), "enable", Null),
           "blendFunc", Null)

(* Renderer.resize and its matrix *)

RECURSIVE Gcd(_, _)
Gcd(a, b) == IF b = 0 THEN a ELSE Gcd(b, a % b)

\* A number of the matrix is kept as the fraction <<n, d>> in lowest terms,
\* d >= 0; as in JavaScript a division by zero does not fail: <<1, 0>> is
\* Infinity, <<-1, 0>> is -Infinity and <<0, 0>> is NaN
Fraction(n, d) ==
    LET num == IF d < 0 THEN -n ELSE n
        den == IF d < 0 THEN -d ELSE d
        g == Gcd(IF num < 0 THEN -num ELSE num, den)
    IN  IF g = 0 THEN <<0, 0>> ELSE <<num \div g, den \div g>>

Whole(n) == <<n, 1>>

Plus(x, y) == Fraction(x[1] * y[2] + y[1] * x[2], x[2] * y[2])

Minus(x, y) == Fraction(x[1] * y[2] - y[1] * x[2], x[2] * y[2])

Mult(x, y) == Fraction(x[1] * y[1], x[2] * y[2])

Over(x, y) == Fraction(x[1] * y[2], x[2] * y[1])

createOrthographicOffCenter_unflipped(left, right, bottom, top, near, far) ==
    LET leftRight == Over(Whole(1), Minus(Whole(left), Whole(right)))
        bottomTop == Over(Whole(1), Minus(Whole(top), Whole(bottom)))
        nearFar == Over(Whole(1), Minus(Whole(near), Whole(far)))
    IN  <<Mult(Whole(-2), leftRight), Whole(0), Whole(0), Whole(0),
          Whole(0), Mult(Whole(-2), bottomTop), Whole(0), Whole(0),
          Whole(0), Whole(0), Mult(Whole(2), nearFar), Whole(0),
          Mult(Plus(Whole(left), Whole(right)), leftRight),
          Mult(Plus(Whole(top), Whole(bottom)), bottomTop),
          Mult(Plus(Whole(far), Whole(near)), nearFar), Whole(1)>>

\* createOrthographicOffCenter(left, right, bottom, top, near, far): the
\* sixteen numbers, the element the source calls [i] at index i + 1
createOrthographicOffCenter(left, right, bottom, top, near, far) ==
    LET leftRight == Over(Whole(1), Minus(Whole(left), Whole(right)))
        bottomTop == Over(Whole(1), Minus(Whole(bottom), Whole(top)))
        nearFar == Over(Whole(1), Minus(Whole(near), Whole(far)))
    IN  <<Mult(Whole(-2), leftRight), Whole(0), Whole(0), Whole(0),
          Whole(0), Mult(Whole(-2), bottomTop), Whole(0), Whole(0),
          Whole(0), Whole(0), Mult(Whole(2), nearFar), Whole(0),
          Mult(Plus(Whole(left), Whole(right)), leftRight),
          Mult(Plus(Whole(top), Whole(bottom)), bottomTop),
          Mult(Plus(Whole(far), Whole(near)), nearFar), Whole(1)>>

\* x < y for two fractions that are numbers
Less(x, y) == x[1] * y[2] < y[1] * x[2]

\* Math.min(x, y)
Min(x, y) == IF Less(y, x) THEN y ELSE x

\* renderer.resize(width, height); the renderer's width, height and matrix
\* are kept with the globals
Renderer_resize(globals, width, height) ==
    [globals EXCEPT !.width = width, !.height = height,
                    !.matrix = createOrthographicOffCenter(0, width, height, 0,
                                                           -1, 1)]

----------------------------------------------------------------------------
(* The state after construction *)

NoOp == [wrapper |-> Null, method |-> "none", args |-> << >>,
         onDeleted |-> FALSE]

NoText == [method |-> "none", args |-> << >>, result |-> 0, before |-> 0]

\* new Font(): this.glyphs = {}
NoGlyphs == [c \in {} |-> 0]

NoFonts == [glyphs |-> NoGlyphs, data |-> << >>, copy |-> NoGlyphs,
            state |-> "loaded"]

\* The globals of game.js when the script has been evaluated: the resources
\* are null until main creates them, the Player is the only game object
NoGame ==
    [stage |-> "loading", prevTimestamp |-> << >>,
     gameObjects |-> <<[objectType |-> "Player", x |-> 3, y |-> 0]>>,
     tiles |-> <<0, 2, 3>>,
     breakingTile |-> <<-1, -1, 0>>, viewOffsetY |-> 0, deltaTime |-> << >>,
     textures |-> << >>, canvas |-> <<0, 0>>,
     width |-> 0, height |-> 0, matrix |-> << >>,
     sceneShaderProgram |-> Null, screenShaderProgram |-> Null,
     fontShaderProgram |-> Null, blurShaderProgram |-> Null,
     framebufferMultisample |-> Null, framebuffer |-> Null,
     pingFramebuffer |-> Null, pongFramebuffer |-> Null]

\* No call of getAdjacentTilesOfSameType is under way
NoFlood ==
    [pc |-> "idle", tiles |-> << >>, x |-> 0, y |-> 0, typeId |-> 0,
     queue |-> << >>, checked |-> << >>, result |-> << >>]

\* No shape emitter has been called yet
NoShape == [method |-> "none", args |-> << >>, count |-> NaN, before |-> 0]

InitRenderer ==
    /\ vertexCount = NaN
    /\ vertices = [i \in 1..MAX_VERTICES |-> ZeroVertex]
    /\ buffer = [i \in 1..MAX_VERTICES |-> ZeroVertex]
    /\ boundTexture = NoTexture
    /\ glCalls = <<>>
    /\ thrown = FALSE
    /\ buckets = <<>>
    /\ nextId = 1
    /\ replayed = <<>>
    /\ recorded = <<>>
    /\ expected = <<>>
    /\ phase = "new"
    /\ lastOp = "new"
    /\ steps = 0
    /\ shapeOp = NoShape
    /\ flood = NoFlood

Init ==
    /\ InitRenderer
    /\ gpu = NoWrappers
    /\ gpuOp = NoOp
    /\ textOp = NoText
    /\ fonts = NoFonts
    /\ game = NoGame

\* The batch the caller opened with beginGeometry is "accumulating" until the
\* caller's endGeometry has "ended" it; what the caller does to the renderer
\* after that and before the next beginGeometry finds it "stale".
Later(ph) == IF ph = "ended" THEN "stale" ELSE ph

\* One more operation of the caller, named op
Step(limit, op) ==
    /\ steps < limit
    /\ steps' = steps + 1
    /\ lastOp' = op
    /\ UNCHANGED <<gpu, gpuOp, textOp, fonts, game, shapeOp, flood>>

----------------------------------------------------------------------------
(* The caller drives the renderer directly *)

BeginGeometry(limit) ==
    /\ Step(limit, "beginGeometry")
    /\ Becomes(beginGeometry([Fresh(Here) EXCEPT !.glCalls = <<>>]))
    /\ expected' = <<>>
    /\ phase' = "accumulating"
    /\ UNCHANGED <<buckets, nextId, recorded>>

EndGeometry(limit) ==
    /\ Step(limit, "endGeometry")
    /\ Becomes(endGeometry(Fresh(Here)))
    /\ phase' = IF phase = "accumulating" THEN "ended" ELSE Later(phase)
    /\ UNCHANGED <<buckets, nextId, recorded, expected>>

\* The caller keeps addVertex within the capacity of the scratch array
AddVertex(limit) ==
    /\ vertexCount = NaN \/ vertexCount < MAX_VERTICES
    /\ \E v \in VertexInputs :
        /\ Step(limit, "addVertex")
        /\ Becomes(addVertex(Fresh(Here), v))
        /\ phase' = Later(phase)
        /\ expected' = Append(expected, v)
    /\ UNCHANGED <<buckets, nextId, recorded>>

DrawTriangle ==
    /\ \E p \in TriangleInputs :
        /\ Step(MaxSteps, "drawTriangle")
        /\ Becomes(drawTriangle(Fresh(Here), p))
        /\ phase' = Later(phase)
        /\ expected' = expected \o RefTriangle(p)
    /\ UNCHANGED <<buckets, nextId, recorded>>

DrawQuad ==
    /\ \E p \in QuadInputs :
        /\ Step(MaxSteps, "drawQuad")
        /\ Becomes(drawQuad(Fresh(Here), p))
        /\ phase' = Later(phase)
        /\ expected' = expected \o RefQuad(p)
    /\ UNCHANGED <<buckets, nextId, recorded>>

DrawRectangle ==
    /\ \E p \in RectangleInputs :
        /\ Step(MaxSteps, "drawRectangle")
        /\ Becomes(drawRectangle(Fresh(Here), p))
        /\ phase' = Later(phase)
        /\ expected' = expected \o RefQuad(RectangleQuad(p))
    /\ UNCHANGED <<buckets, nextId, recorded>>

DrawRectangleOffCenter ==
    /\ \E p \in RectangleOffCenterInputs :
        /\ Step(MaxSteps, "drawRectangleOffCenter")
        /\ Becomes(drawRectangleOffCenter(Fresh(Here), p))
        /\ phase' = Later(phase)
        /\ expected' = expected \o RefQuad(RectangleOffCenterQuad(p))
    /\ UNCHANGED <<buckets, nextId, recorded>>

DrawRotatedRectangleOffCenter ==
    /\ \E p \in RotatedRectangleInputs :
        /\ Step(MaxSteps, "drawRotatedRectangleOffCenter")
        /\ Becomes(drawRotatedRectangleOffCenter(Fresh(Here), p))
        /\ phase' = Later(phase)
        /\ expected' = expected \o RefQuad(RotatedRectangleQuad(p))
    /\ UNCHANGED <<buckets, nextId, recorded>>

Next ==
    \/ BeginGeometry(MaxSteps)
    \/ EndGeometry(MaxSteps)
    \/ AddVertex(MaxSteps)
    \/ DrawTriangle
    \/ DrawQuad
    \/ DrawRectangle
    \/ DrawRectangleOffCenter
    \/ DrawRotatedRectangleOffCenter

Spec == Init /\ [][Next]_vars

\* The caller fills a batch vertex by vertex, up to the capacity
NextFill ==
    \/ BeginGeometry(MaxFillSteps)
    \/ AddVertex(MaxFillSteps)
    \/ EndGeometry(MaxFillSteps)

SpecFill == Init /\ [][NextFill]_vars

----------------------------------------------------------------------------
(* The caller draws through the SpriteBatch *)

begin_keep(b) == b

\* begin(): this.buckets.clear()
begin(b) == <<>>

SpriteBatch_begin ==
    /\ Step(MaxBatchSteps, "begin")
    /\ buckets' = begin(buckets)
    /\ recorded' = <<>>
    /\ UNCHANGED <<rendererVars, replayed, nextId, expected, phase>>

SpriteBatch_end_clearing ==
    /\ Step(MaxBatchSteps, "end")
    /\ Becomes(end([Fresh(Here) EXCEPT !.glCalls = <<>>, !.replayed = <<>>], buckets))
    /\ phase' = "stale"
    /\ buckets' = <<>>
    /\ UNCHANGED <<nextId, recorded, expected>>

SpriteBatch_end ==
    /\ Step(MaxBatchSteps, "end")
    /\ Becomes(end([Fresh(Here) EXCEPT !.glCalls = <<>>, !.replayed = <<>>], buckets))
    /\ phase' = "stale"
    /\ UNCHANGED <<buckets, nextId, recorded, expected>>

Record_eager(method, texture, name, args) ==
    /\ Step(MaxBatchSteps, method)
    /\ buckets' = addCommand(buckets, texture, [id |-> nextId, name |-> name, args |-> args])
    /\ nextId' = nextId + 1
    /\ recorded' = Append(recorded, [id |-> nextId, texture |-> texture,
                                     method |-> method, args |-> args])
    /\ Becomes(Dispatch(Fresh(Here), name, args))
    /\ UNCHANGED <<expected, phase>>

\* The caller's call method(texture, ...args) of the SpriteBatch, which is
\* addCommand(texture, name, [...arguments].slice(1)); the command is a new object.
Record(method, texture, name, args) ==
    /\ Step(MaxBatchSteps, method)
    /\ buckets' = addCommand(buckets, texture, [id |-> nextId, name |-> name, args |-> args])
    /\ nextId' = nextId + 1
    /\ recorded' = Append(recorded, [id |-> nextId, texture |-> texture,
                                     method |-> method, args |-> args])
    /\ UNCHANGED <<rendererVars, replayed, expected, phase>>

SpriteBatch_drawTriangle ==
    \E t \in TileTextures, p \in TriangleInputs :
        Record("drawTriangle", t, "drawTriangle", p)

SpriteBatch_drawQuad ==
    \E t \in TileTextures, p \in QuadInputs :
        Record("drawQuad", t, "drawQuad", p)

SpriteBatch_drawRectangle ==
    \E t \in TileTextures, p \in RectangleInputs :
        Record("drawRectangle", t, "drawRectangle", p)

SpriteBatch_drawRectangleOffCenter ==
    \E t \in TileTextures, p \in RectangleOffCenterInputs :
        Record("drawRectangleOffCenter", t, "drawRectangleOffCenter", p)

SpriteBatch_drawRotatedRectangleOffCenter ==
    \E t \in TileTextures, p \in RotatedRectangleInputs :
        Record("drawRotatedRectangleOffCenter", t, "drawRotatedRectangleOffCenter", p)

SpriteBatch_drawChar ==
    \E t \in FontTextures, p \in CharInputs :
        Record("drawChar", t, "drawChar", p)

SpriteBatch_drawString ==
    \E t \in FontTextures, p \in StringInputs :
        Record("drawString", t, "drawString", p)

SpriteBatch_drawStringOffCenter ==
    \E t \in FontTextures, p \in StringInputs :
        Record("drawStringOffCenter", t, "drawStringOffCenter", p)

NextBatch ==
    \/ SpriteBatch_begin
    \/ SpriteBatch_end
    \/ SpriteBatch_drawTriangle
    \/ SpriteBatch_drawQuad
    \/ SpriteBatch_drawRectangle
    \/ SpriteBatch_drawRectangleOffCenter
    \/ SpriteBatch_drawRotatedRectangleOffCenter
    \/ SpriteBatch_drawChar
    \/ SpriteBatch_drawString
    \/ SpriteBatch_drawStringOffCenter

SpecBatch == Init /\ [][NextBatch]_vars

----------------------------------------------------------------------------
(* Renderer: begin / add / end *)

\* C1: after beginGeometry, n calls of addVertex (1 <= n <= MAX_VERTICES) and
\* endGeometry, the context has seen exactly one upload, of VERTEX_ELEMENTS * n
\* floats from offset 0, followed by exactly one draw call, which covers
\* exactly the n vertices added.
C1_OneDrawOfAllAdded ==
    (phase = "ended" /\ Len(expected) >= 1) =>
        glCalls = << [call |-> "bufferSubData", offset |-> 0,
                      count |-> VERTEX_ELEMENTS * Len(expected)],
                     [call |-> "drawArrays", count |-> Len(expected),
                      covers |-> expected] >>

C1_Witness ==
    /\ phase = "ended"
    /\ Len(expected) = MAX_VERTICES
    /\ Count(glCalls, "drawArrays") = 1
    /\ glCalls[2].count = MAX_VERTICES

\* C2: once endGeometry has closed a batch, the vertices covered by the draw
\* calls issued since beginGeometry, concatenated in draw-call order, are the
\* vertex list of the unbounded reference renderer, however often the batch
\* was flushed on the way.
C2_DrawnIsReference ==
    phase = "ended" => Drawn(glCalls) = expected

C2_Witness ==
    /\ phase = "ended"
    /\ Len(expected) > MAX_VERTICES
    /\ Count(glCalls, "drawArrays") >= 2
    /\ Drawn(glCalls) = expected

\* C3: once beginGeometry has been called, vertexCount never exceeds
\* MAX_VERTICES and no call raises an error.
C3_NeverOverflows ==
    phase # "new" => (vertexCount <= MAX_VERTICES /\ ~thrown)

C3_Witness ==
    /\ phase = "accumulating"
    /\ lastOp \in {"drawTriangle", "drawQuad", "drawRectangle",
                   "drawRectangleOffCenter", "drawRotatedRectangleOffCenter"}
    /\ Count(glCalls, "drawArrays") >= 1
    /\ vertexCount >= 3

\* C4: an endGeometry that follows a beginGeometry with no vertex added in
\* between issues no context call and leaves the renderer as it was.
C4_EmptyEndIsNoOp ==
    [][(phase = "accumulating" /\ expected = <<>> /\ steps' = steps + 1
            /\ lastOp' = "endGeometry")
        => (/\ glCalls' = glCalls
            /\ UNCHANGED <<vertexCount, vertices, buffer, boundTexture>>
            /\ ~thrown')]_vars

C4_Witness ==
    /\ lastOp = "endGeometry"
    /\ phase = "ended"
    /\ expected = <<>>
    /\ vertexCount = 0
    /\ glCalls = <<>>

----------------------------------------------------------------------------
(* SpriteBatch: what end() replays, against what the caller recorded *)

RecorderNames ==
    {"drawTriangle", "drawQuad", "drawRectangle", "drawRectangleOffCenter",
     "drawRotatedRectangleOffCenter", "drawChar", "drawString", "drawStringOffCenter"}

\* Where end() replayed the command object with identity id
ReplayedAt(id) == {a \in 1..Len(replayed) : replayed[a].id = id}

RecordedTextures == {recorded[i].texture : i \in 1..Len(recorded)}

\* The call that first used the texture of the i-th recorded call
FirstUse(i) ==
    CHOOSE k \in 1..i :
        /\ recorded[k].texture = recorded[i].texture
        /\ \A j \in 1..(k - 1) : recorded[j].texture # recorded[i].texture

BindsOf(texture) ==
    {a \in 1..Len(glCalls) :
        glCalls[a].call = "bindTexture" /\ glCalls[a].texture = texture}

\* C5: of two commands recorded against the same texture since begin(), end()
\* replays the one recorded first before the other (each exactly there),
\* whatever was recorded for other textures in between.
C5_SameTextureOrderKept ==
    lastOp = "end" =>
        \A i, j \in 1..Len(recorded) :
            (i < j /\ recorded[i].texture = recorded[j].texture) =>
                /\ ReplayedAt(recorded[i].id) # {}
                /\ ReplayedAt(recorded[j].id) # {}
                /\ \A a \in ReplayedAt(recorded[i].id), b \in ReplayedAt(recorded[j].id) :
                        a < b

C5_Witness ==
    /\ lastOp = "end"
    /\ \E i, j, k \in 1..Len(recorded) :
        /\ i < j /\ j < k
        /\ recorded[i].texture = recorded[k].texture
        /\ recorded[j].texture # recorded[i].texture
        /\ \A a \in ReplayedAt(recorded[i].id), b \in ReplayedAt(recorded[k].id) : a < b
        /\ ReplayedAt(recorded[k].id) # {}

\* C6: end() binds every texture that received a command since begin() exactly
\* once and no other texture, so it issues as many binds as there are distinct
\* textures.
C6_OneBindPerTexture ==
    lastOp = "end" =>
        /\ \A t \in TileTextures \cup FontTextures :
                Cardinality(BindsOf(t)) = IF t \in RecordedTextures THEN 1 ELSE 0
        /\ Count(glCalls, "bindTexture") = Cardinality(RecordedTextures)

C6_Witness ==
    /\ lastOp = "end"
    /\ Len(recorded) = 3
    /\ Cardinality(RecordedTextures) = 2
    /\ Count(glCalls, "bindTexture") = 2

\* C7: end() replays no command that was recorded before the last begin().
C7_BeginClears ==
    lastOp = "end" =>
        \A a \in 1..Len(replayed) :
            replayed[a].id > 0 =>
                \E i \in 1..Len(recorded) : recorded[i].id = replayed[a].id

C7_Witness ==
    /\ lastOp = "end"
    /\ Len(recorded) >= 1
    /\ recorded[1].id > 1
    /\ ReplayedAt(recorded[1].id) # {}
    /\ ReplayedAt(1) = {}

\* C8: if texture T1 was first used (since begin()) before texture T2, end()
\* replays every command of T1 before any command of T2.
C8_BucketCreationOrder ==
    lastOp = "end" =>
        \A i, j \in 1..Len(recorded) :
            FirstUse(i) < FirstUse(j) =>
                /\ ReplayedAt(recorded[i].id) # {}
                /\ ReplayedAt(recorded[j].id) # {}
                /\ \A a \in ReplayedAt(recorded[i].id), b \in ReplayedAt(recorded[j].id) :
                        a < b

C8_Witness ==
    /\ lastOp = "end"
    /\ Len(recorded) = 3
    /\ recorded[1].texture = recorded[3].texture
    /\ recorded[2].texture # recorded[1].texture
    /\ \A a \in ReplayedAt(recorded[3].id), b \in ReplayedAt(recorded[2].id) : a < b

----------------------------------------------------------------------------
(* What end() has to do for the calls recorded, written from the recorded calls *)

\* The reference renderer's vertices for one glyph, a string, a centred string
RefChar(p) ==
    IF p[4] \in DOMAIN p[1] THEN RefQuad(RectangleQuad(CharRectangle(p))) ELSE <<>>

RECURSIVE RefStringAt(_, _, _)
RefStringAt(p, str, pen) ==
    IF str = <<>> THEN <<>>
    ELSE IF Head(str) \notin DOMAIN p[1] THEN RefStringAt(p, Tail(str), pen)
    ELSE RefChar(<<p[1], pen, p[3], Head(str), p[5], p[6], p[7], p[8], p[9]>>)
         \o RefStringAt(p, Tail(str), pen + p[5] * p[1][Head(str)].advance)

RECURSIVE RefWidth(_, _, _)
RefWidth(f, str, size) ==
    IF str = <<>> THEN 0
    ELSE (IF Head(str) \in DOMAIN f THEN size * f[Head(str)].advance ELSE 0)
         + RefWidth(f, Tail(str), size)

RefVertices(method, p) ==
    CASE method = "drawTriangle" -> RefTriangle(p)
      [] method = "drawQuad" -> RefQuad(p)
      [] method = "drawRectangle" -> RefQuad(RectangleQuad(p))
      [] method = "drawRectangleOffCenter" -> RefQuad(RectangleOffCenterQuad(p))
      [] method = "drawRotatedRectangleOffCenter" -> RefQuad(RotatedRectangleQuad(p))
      [] method = "drawChar" -> RefChar(p)
      [] method = "drawString" -> RefStringAt(p, p[4], p[2])
      [] method = "drawStringOffCenter" ->
            RefStringAt(p, p[4], p[2] - RefWidth(p[1], p[4], p[5]) \div 2)

\* The recorded calls grouped by texture, the textures in order of first use
RECURSIVE Grouped(_, _)
Grouped(rec, done) ==
    IF rec = <<>> THEN <<>>
    ELSE IF Head(rec).texture \in done THEN Grouped(Tail(rec), done)
    ELSE << [texture |-> Head(rec).texture,
             calls |-> SelectSeq(rec, LAMBDA r : r.texture = Head(rec).texture)] >>
         \o Grouped(Tail(rec), done \cup {Head(rec).texture})

RECURSIVE ExpectedReplay(_)
ExpectedReplay(groups) ==
    IF groups = <<>> THEN <<>>
    ELSE << [call |-> "bind", id |-> 0, args |-> <<Head(groups).texture>>],
            [call |-> "beginGeometry", id |-> 0, args |-> <<>>] >>
         \o [k \in 1..Len(Head(groups).calls) |->
                [call |-> Head(groups).calls[k].method,
                 id |-> Head(groups).calls[k].id,
                 args |-> Head(groups).calls[k].args]]
         \o << [call |-> "endGeometry", id |-> 0, args |-> <<>>] >>
         \o ExpectedReplay(Tail(groups))

RECURSIVE ExpectedVertices(_)
ExpectedVertices(rec) ==
    IF rec = <<>> THEN <<>>
    ELSE RefVertices(Head(rec).method, Head(rec).args) \o ExpectedVertices(Tail(rec))

RECURSIVE Flatten(_)
Flatten(groups) ==
    IF groups = <<>> THEN <<>> ELSE Head(groups).calls \o Flatten(Tail(groups))

SameCall(x, y) == x.call = y.call /\ x.id = y.id /\ x.args = y.args

\* C9: for each bucket in turn end() calls texture.bind(), beginGeometry(), the
\* Renderer method named like the recording method with the recorded arguments
\* once for every command of the bucket, then endGeometry(); nothing else, no
\* command dropped or repeated; and what is drawn is what those methods draw.
C9_EndReplaysExactly ==
    lastOp = "end" =>
        LET want == ExpectedReplay(Grouped(recorded, {}))
        IN  /\ Len(replayed) = Len(want)
            /\ \A a \in 1..Len(want) : SameCall(replayed[a], want[a])
            /\ Drawn(glCalls) = ExpectedVertices(Flatten(Grouped(recorded, {})))

C9_Witness ==
    /\ lastOp = "end"
    /\ Len(buckets) = 2
    /\ Len(recorded) = 3
    /\ Len(replayed) = 9
    /\ replayed[1].call = "bind"
    /\ replayed[9].call = "endGeometry"
    /\ Len(Drawn(glCalls)) > MAX_VERTICES

\* C10: a draw method of the SpriteBatch only records: it adds one command to
\* the buckets and leaves the renderer, the context and its texture binding
\* untouched.
C10_RecordingIsDeferred ==
    [][(lastOp' \in RecorderNames /\ steps' = steps + 1)
        => (/\ UNCHANGED <<vertexCount, vertices, buffer, boundTexture, glCalls,
                           replayed, thrown>>
            /\ buckets' # buckets)]_vars

C10_Witness ==
    /\ lastOp \in RecorderNames
    /\ vertexCount # NaN
    /\ buckets # <<>>
    /\ glCalls # <<>>

----------------------------------------------------------------------------
(* The caller drives the GPU resource wrappers *)

\* The wrappers a caller holds: two textures, a renderbuffer, a framebuffer
\* and the framebuffer it blits to, a vertex buffer with its vertex array, a
\* shader and a shader program
GpuWrappers ==
    {<<"Texture", 1>>, <<"Texture", 2>>, <<"Renderbuffer", 3>>,
     <<"Framebuffer", 4>>, <<"Framebuffer", 5>>, <<"Buffer", 6>>,
     <<"VertexArray", 7>>, <<"Shader", 8>>, <<"ShaderProgram", 9>>}

OfClass(class) == {id \in DOMAIN gpu.objs : id[1] = class}

Diagnostics == {"ERROR: 0:1: syntax error"}

\* Each wrapper as its constructor leaves it: the handle is the created object
InitGpu ==
    /\ InitRenderer
    /\ gpu = [NoWrappers EXCEPT
                !.objs = [id \in GpuWrappers |->
                            [handle |-> id, width |-> 4, height |-> 2,
                             attachment |-> Undefined,
                             uniformLocationCache |-> {}]],
                !.created = Cardinality(GpuWrappers)]
    /\ gpuOp = NoOp
    /\ textOp = NoText
    /\ fonts = NoFonts
    /\ game = NoGame

\* wrapper.method(args) is invoked and leaves the context and the wrappers as
\* g; onDeleted: the wrapper's delete() had been called before
Invoke(id, method, args, g) ==
    /\ steps < MaxGpuSteps
    /\ steps' = steps + 1
    /\ lastOp' = method
    /\ gpu' = g
    /\ gpuOp' = [wrapper |-> id, method |-> method, args |-> args,
                 onDeleted |-> Times(gpu.deletes, id) > 0]
    /\ UNCHANGED <<rendererVars, batchVars, textOp, fonts, game, shapeOp, flood>>

Wrapper_delete ==
    \E id \in DOMAIN gpu.objs :
        /\ Times(gpu.deletes, id) < MaxDeletes
        /\ Invoke(id, "delete", << >>, Delete(Quiet(gpu), id))

Renderbuffer_call ==
    \E id \in OfClass("Renderbuffer") :
        Invoke(id, "bind", << >>, Renderbuffer_bind(Quiet(gpu), id))

Framebuffer_call ==
    \E id \in {<<"Framebuffer", 4>>} :
        \/ Invoke(id, "bind", << >>, Framebuffer_bind(Quiet(gpu), id))
        \/ Invoke(id, "unbind", << >>, Framebuffer_unbind(Quiet(gpu), id))
        \/ \E t \in OfClass("Texture") :
              Invoke(id, "attachTexture", << >>,
                     Framebuffer_attachTexture(Quiet(gpu), id, t))
        \/ \E r \in OfClass("Renderbuffer") :
              Invoke(id, "attachRenderbuffer", << >>,
                     Framebuffer_attachRenderbuffer(Quiet(gpu), id, r))
        \/ Invoke(id, "resize", << >>, Framebuffer_resize(Quiet(gpu), id, 8, 4))
        \/ \E f \in OfClass("Framebuffer") \ {id} :
              Invoke(id, "blit", << >>, Framebuffer_blit(Quiet(gpu), id, f))

Texture_call ==
    \E id \in OfClass("Texture") :
        \/ \E textureUnit \in {0, 1} :
              Invoke(id, "bind", << >>, Texture_bindUnit(Quiet(gpu), id, textureUnit))
        \/ Invoke(id, "setParameter", << >>, Texture_setParameter(Quiet(gpu), id))

Buffer_call ==
    \E id \in OfClass("Buffer") :
        \/ Invoke(id, "bind", << >>, Buffer_bind(Quiet(gpu), id))
        \/ Invoke(id, "setData", << >>, Buffer_setData(Quiet(gpu), id))

VertexArray_call ==
    \E id \in OfClass("VertexArray") :
        \/ Invoke(id, "bind", << >>, VertexArray_bind(Quiet(gpu), id))
        \/ Invoke(id, "unnbind", << >>, VertexArray_unnbind(Quiet(gpu), id))
        \/ Invoke(id, "draw", << >>, VertexArray_drawBound(Quiet(gpu), id, 3))

ShaderProgram_call ==
    \E id \in {<<"ShaderProgram", 9>>} :
        \/ Invoke(id, "bind", << >>, ShaderProgram_bind(Quiet(gpu), id))
        \/ \E isBoolean \in BOOLEAN :
              Invoke(id, "setUniform", << >>,
                     ShaderProgram_setUniform(Quiet(gpu), id, "horizontal",
                                              isBoolean,
                                              IF isBoolean THEN TRUE ELSE 1))

\* new ShaderProgram(...): the wrapper the caller gets is the program's name,
\* or nothing when the constructor raised
ShaderProgram_new ==
    \E vertexCompiles \in BOOLEAN, fragmentCompiles \in BOOLEAN,
       links \in BOOLEAN, infoLog \in Diagnostics :
        /\ gpu.created < MaxCreated
        /\ Invoke(Null, "new ShaderProgram",
                  <<vertexCompiles, fragmentCompiles, links, infoLog>>,
                  NewShaderProgram(Quiet(gpu), vertexCompiles,
                                   fragmentCompiles, links, infoLog))

NextGpu ==
    \/ Wrapper_delete
    \/ Renderbuffer_call
    \/ Framebuffer_call
    \/ Texture_call
    \/ Buffer_call
    \/ VertexArray_call
    \/ ShaderProgram_call
    \/ ShaderProgram_new

SpecGpu == InitGpu /\ [][NextGpu]_vars

----------------------------------------------------------------------------
(* GPU resource wrappers: deletion, attachment, construction *)

\* C11: for every GPU wrapper (Renderbuffer, Framebuffer, Shader,
\* ShaderProgram, Texture, Buffer, VertexArray) and every k >= 1, after k
\* calls of delete() the deletion primitive has been invoked exactly once
\* with the wrapper's handle, the handle is null, and the 2nd to k-th calls
\* issued no GPU call.
C11_DeleteOnce ==
    \A id \in DOMAIN gpu.objs :
        Times(gpu.deletes, id) >= 1 =>
            /\ Times(gpu.freed, id) = 1
            /\ Len(SelectSeq(gpu.freed, LAMBDA h : h = Null)) = 0
            /\ Handle(gpu, id) = Null
            /\ (gpuOp.wrapper = id /\ gpuOp.method = "delete"
                    /\ Times(gpu.deletes, id) >= 2) => gpu.calls = << >>

C11_Witness ==
    \E id \in DOMAIN gpu.objs :
        /\ gpuOp.wrapper = id /\ gpuOp.method = "delete"
        /\ Times(gpu.deletes, id) = 3
        /\ Times(gpu.freed, id) = 1
        /\ gpu.calls = << >>

\* C12 as stated: once a wrapper has been deleted, every further operation
\* on it that raises no error leaves the context as it was (no binding
\* changes, nothing is deleted).
C12_DeletedIsInert ==
    [][(steps' = steps + 1 /\ gpuOp'.onDeleted /\ ~gpu'.thrown) =>
          (gpu'.bound = gpu.bound /\ gpu'.freed = gpu.freed)]_vars

\* C12, amended: once a wrapper has been deleted its handle stays null and no
\* further operation on it passes the deleted GPU object to the context:
\* delete() issues no call, every other operation still issues its calls,
\* with null where the wrapper's own handle goes (so bind rebinds the target
\* to null).
C12_DeletedHandleUnused ==
    gpuOp.onDeleted =>
        /\ Handle(gpu, gpuOp.wrapper) = Null
        /\ \A i \in 1..Len(gpu.calls) :
              gpu.calls[i].h # gpuOp.wrapper /\ gpu.calls[i].h2 # gpuOp.wrapper
        /\ (gpuOp.method = "delete") = (gpu.calls = << >>)

C12_Witness ==
    /\ gpuOp.onDeleted
    /\ gpuOp.method = "bind"
    /\ gpuOp.wrapper[1] = "Texture"
    /\ gpu.calls # << >>
    /\ gpu.calls[Len(gpu.calls)] =
          GlCall("bindTexture", "", Null, Null, << >>)

\* The resources attached to a framebuffer, in the order of the attach calls
AttachedTo(id) ==
    LET pairs == SelectSeq(gpu.attached, LAMBDA p : p[1] = id)
    IN  [i \in 1..Len(pairs) |-> pairs[i][2]]

\* C13: a framebuffer holds at most one attachment: after any sequence of
\* attachTexture / attachRenderbuffer calls with distinct resources, the
\* resource attached last is the framebuffer's attachment and every resource
\* attached before it has been deleted exactly once.
C13_OneAttachment ==
    \A id \in OfClass("Framebuffer") :
        LET hist == AttachedTo(id)
        IN  (/\ hist # << >>
             /\ \A i, j \in 1..Len(hist) : hist[i] = hist[j] => i = j) =>
                /\ gpu.objs[id].attachment = hist[Len(hist)]
                /\ \A i \in 1..(Len(hist) - 1) :
                      /\ Times(gpu.freed, hist[i]) = 1
                      /\ Handle(gpu, hist[i]) = Null

C13_Witness ==
    \E id \in OfClass("Framebuffer") :
        /\ Len(AttachedTo(id)) = 3
        /\ Cardinality({AttachedTo(id)[i] : i \in 1..3}) = 3
        /\ Handle(gpu, AttachedTo(id)[3]) # Null
        /\ gpuOp.method \in {"attachTexture", "attachRenderbuffer"}

\* The names of the context calls an operation issued, in order
Names(calls) == [i \in 1..Len(calls) |-> calls[i].call]

ShaderSteps ==
    <<"createShader", "shaderSource", "compileShader", "getShaderParameter">>

\* C14: when a shader fails to compile or the program fails to link, the
\* constructor raises an error whose message embeds the context's
\* diagnostic, the error reaches the caller, no wrapper object is produced,
\* and no construction step after the failing one is executed.
C14_ConstructionFails ==
    LET vertexCompiles == gpuOp.args[1]
        fragmentCompiles == gpuOp.args[2]
        links == gpuOp.args[3]
        infoLog == gpuOp.args[4]
        made == {gpu.calls[i].h : i \in
                    {j \in 1..Len(gpu.calls) :
                        gpu.calls[j].call \in CreationPrimitives}}
    IN  (gpuOp.method = "new ShaderProgram"
            /\ ~(vertexCompiles /\ fragmentCompiles /\ links)) =>
            /\ gpu.thrown
            /\ \A id \in made : id[1] = "ShaderProgram" => id \notin DOMAIN gpu.objs
            /\ \/ /\ ~vertexCompiles
                  /\ gpu.message = <<"Can't compile shader: ", infoLog>>
                  /\ Names(gpu.calls) = ShaderSteps \o <<"getShaderInfoLog">>
                  /\ made \cap DOMAIN gpu.objs = {}
               \/ /\ vertexCompiles /\ ~fragmentCompiles
                  /\ gpu.message = <<"Can't compile shader: ", infoLog>>
                  /\ Names(gpu.calls) =
                        ShaderSteps \o ShaderSteps \o <<"getShaderInfoLog">>
                  /\ gpu.calls[Len(gpu.calls)].h \notin DOMAIN gpu.objs
               \/ /\ vertexCompiles /\ fragmentCompiles /\ ~links
                  /\ gpu.message = <<"Can't link shader program: ", infoLog>>
                  /\ Names(gpu.calls) =
                        ShaderSteps \o ShaderSteps \o
                        <<"createProgram", "attachShader", "attachShader",
                          "linkProgram", "getProgramParameter",
                          "getProgramInfoLog">>

C14_Witness ==
    /\ gpuOp.method = "new ShaderProgram"
    /\ gpuOp.args[1] /\ gpuOp.args[2] /\ ~gpuOp.args[3]
    /\ gpu.thrown
    /\ gpu.message = <<"Can't link shader program: ", gpuOp.args[4]>>
    /\ Names(gpu.calls)[Len(gpu.calls)] = "getProgramInfoLog"
    /\ gpu.bound.program = Null

----------------------------------------------------------------------------
(* The caller draws and measures text on the renderer directly *)

\* Strings with the glyph-less code 63 in front, in the middle, at the end,
\* alone, and without it
TextStrings ==
    {<< >>, <<63>>, <<65, 66>>, <<63, 66>>, <<65, 63, 66>>, <<66, 65, 63>>}

\* font, x, y, str, size, r, g, b, a: with size 2 every measured width is even
TextInputs == {<<font, 60, 0, str, 2, 1, 1, 1, 1>> : str \in TextStrings}

\* A text method is called with arguments p on the renderer and leaves it as
\* w; `before` is the number of vertices the batch had received
TextCall(method, p, w, result) ==
    /\ steps < MaxTextSteps
    /\ steps' = steps + 1
    /\ lastOp' = method
    /\ Becomes(w)
    /\ textOp' = [method |-> method, args |-> p, result |-> result,
                  before |-> Len(expected)]
    /\ phase' = Later(phase)
    /\ UNCHANGED <<buckets, nextId, recorded, gpu, gpuOp, fonts, game, shapeOp, flood>>

DrawChar ==
    \E p \in CharInputs :
        /\ TextCall("drawChar", p, drawChar(Fresh(Here), p), 0)
        /\ expected' = expected \o RefChar(p)

DrawString ==
    \E p \in TextInputs :
        /\ TextCall("drawString", p, drawString(Fresh(Here), p), 0)
        /\ expected' = expected \o RefStringAt(p, p[4], p[2])

DrawStringOffCenter ==
    \E p \in TextInputs :
        /\ TextCall("drawStringOffCenter", p,
                    drawStringOffCenter(Fresh(Here), p), 0)
        /\ expected' = expected \o
              RefStringAt(p, p[4], p[2] - RefWidth(p[1], p[4], p[5]) \div 2)

\* measureString reads the font and returns a number: no field of the
\* renderer is assigned
MeasureString ==
    \E p \in TextInputs :
        /\ TextCall("measureString", <<p[1], p[4], p[5]>>, Fresh(Here),
                    measureString(p[1], p[4], p[5]))
        /\ expected' = expected

NextText ==
    \/ BeginGeometry(MaxTextSteps)
    \/ EndGeometry(MaxTextSteps)
    \/ DrawChar
    \/ DrawString
    \/ DrawStringOffCenter
    \/ MeasureString

SpecText == Init /\ [][NextText]_vars

----------------------------------------------------------------------------
(* Text: measuring and drawing strings *)

\* The vertices the open batch has received: those drawn by the flushes so
\* far, then those still waiting in the scratch array
Emitted == Drawn(glCalls) \o [i \in 1..vertexCount |-> vertices[i]]

\* The vertices the last text call added to the open batch
EmittedByCall == SubSeq(Emitted, textOp.before + 1, Len(Emitted))

\* C15: measureString returns the sum, over the characters of the string the
\* font has a glyph for, of size * advance; a character without a glyph adds
\* 0; and the call emits no geometry: vertexCount, the scratch array, the
\* vertex buffer and the context calls issued are what they were.
C15_MeasureIsSumAndPure ==
    [][(steps' = steps + 1 /\ lastOp' = "measureString") =>
          LET f == textOp'.args[1]
              str == textOp'.args[2]
              size == textOp'.args[3]
              Occurs(c) == Cardinality({i \in 1..Len(str) : str[i] = c})
          IN  /\ DOMAIN f = {65, 66}
              /\ textOp'.result = RefWidth(f, str, size)
              /\ textOp'.result = size * f[65].advance * Occurs(65)
                                  + size * f[66].advance * Occurs(66)
              /\ UNCHANGED <<vertexCount, vertices, buffer, glCalls>>
              /\ ~thrown']_vars

C15_Witness ==
    /\ lastOp = "measureString"
    /\ textOp.args[2] = <<65, 63, 66>>
    /\ textOp.result = 10
    /\ phase = "accumulating"
    /\ vertexCount > 0

\* The positions in a string of the characters the font has a glyph for
KnownAt(f, str) == SelectSeq([i \in 1..Len(str) |-> i],
                             LAMBDA i : str[i] \in DOMAIN f)

\* C16: drawString emits exactly one quad (6 vertices) for each character
\* the font has a glyph for and nothing for any other character; a character
\* without a glyph raises no error and does not advance the pen: the k-th
\* character with a glyph is drawn with the pen at x plus the sum of
\* size * advance of the characters with a glyph before it.
C16_OneQuadPerKnownChar ==
    (lastOp = "drawString" /\ phase = "accumulating") =>
        LET p == textOp.args
            f == p[1]  str == p[4]  size == p[5]
            known == KnownAt(f, str)
        IN  /\ ~thrown
            /\ Len(EmittedByCall) = 6 * Len(known)
            /\ \A k \in 1..Len(known) :
                  LET pen == p[2] + RefWidth(f, SubSeq(str, 1, known[k] - 1),
                                             size)
                  IN  SubSeq(EmittedByCall, 6 * k - 5, 6 * k) =
                        RefChar(<<f, pen, p[3], str[known[k]], size,
                                  p[6], p[7], p[8], p[9]>>)

C16_Witness ==
    /\ lastOp = "drawString"
    /\ phase = "accumulating"
    /\ textOp.args[4] = <<65, 63, 66>>
    /\ textOp.before > 0
    /\ Len(EmittedByCall) = 12
    /\ EmittedByCall[7][1] = 60 + 2 * 2

\* C17: drawStringOffCenter(font, x, y, str, size, ...) emits exactly the
\* vertices drawString(font, x - measureString(font, str, size) / 2, y, str,
\* size, ...) emits, also for strings with characters the font has no glyph
\* for.
C17_OffCenterIsShiftedString ==
    (lastOp = "drawStringOffCenter" /\ phase = "accumulating") =>
        LET p == textOp.args
        IN  EmittedByCall =
                RefStringAt(p, p[4], p[2] - RefWidth(p[1], p[4], p[5]) \div 2)

C17_Witness ==
    /\ lastOp = "drawStringOffCenter"
    /\ phase = "accumulating"
    /\ textOp.args[4] = <<66, 65, 63>>
    /\ Len(EmittedByCall) = 12
    /\ EmittedByCall[1][1] = 60 - 5
    /\ EmittedByCall[7][1] = 60 - 5 + 2 * 3

----------------------------------------------------------------------------
(* Font: the binary glyph table *)

GlyphFields ==
    <<"charCode", "advance", "planeLeft", "planeBottom", "planeRight",
      "planeTop", "atlasLeft", "atlasBottom", "atlasRight", "atlasTop">>

\* The value a Float32Array element holds after a number is stored in it.
\* The numbers of the model are integers (each one a double): below 2^24
\* every integer is a float32, from there on only the multiples of the
\* spacing q are, and the store rounds to the nearest, ties to the even one.
RECURSIVE Spacing(_, _)
Spacing(x, q) == IF x < FLOAT32_EXACT * q THEN q ELSE Spacing(x, 2 * q)

Float32(x) ==
    LET abs == IF x < 0 THEN -x ELSE x
        q == Spacing(abs, 1)
        low == (abs \div q) * q
        rest == abs - low
        near == IF 2 * rest < q THEN low
                ELSE IF 2 * rest > q THEN low + q
                ELSE IF (low \div q) % 2 = 0 THEN low ELSE low + q
    IN  IF x < 0 THEN -near ELSE near

\* Object.values(this.glyphs): integer keys come in ascending order
RECURSIVE GlyphValues(_)
GlyphValues(glyphs) ==
    IF DOMAIN glyphs = {} THEN << >>
    ELSE LET first == CHOOSE c \in DOMAIN glyphs :
                          \A d \in DOMAIN glyphs : c <= d
         IN  <<glyphs[first]>> \o
             GlyphValues([c \in DOMAIN glyphs \ {first} |-> glyphs[c]])

RECURSIVE Pushed(_)
Pushed(values) ==
    IF values = << >> THEN << >>
    ELSE [i \in 1..10 |-> Head(values)[GlyphFields[i]]] \o Pushed(Tail(values))

serializeData_swapped(glyphs) ==
    LET swapped == [c \in DOMAIN glyphs |->
                      [glyphs[c] EXCEPT !.charCode = glyphs[c].advance,
                                        !.advance = glyphs[c].charCode]]
        data == <<Cardinality(DOMAIN glyphs)>> \o Pushed(GlyphValues(swapped))
    IN  [i \in 1..Len(data) |-> Float32(data[i])]

\* serializeData(): data = [glyphs.length], ten pushes per glyph,
\* new Float32Array(data)
serializeData(glyphs) ==
    LET values == GlyphValues(glyphs)
        data == <<Len(values)>> \o Pushed(values)
    IN  [i \in 1..Len(data) |-> Float32(data[i])]

\* The loop of deserializeData from glyph i on, `index` floats being read
RECURSIVE deserializeFrom(_, _, _, _)
deserializeFrom(glyphs, floats, i, index) ==
    IF i >= floats[1] THEN glyphs
    ELSE LET glyph == [name \in {GlyphFields[k] : k \in 1..10} |->
                          floats[index + (CHOOSE k \in 1..10 :
                                              GlyphFields[k] = name)]]
         IN  deserializeFrom(
                (glyph.charCode :> glyph) @@
                    [c \in DOMAIN glyphs \ {glyph.charCode} |-> glyphs[c]],
                floats, i + 1, index + 10)

\* deserializeData(data) on a font whose table is `glyphs`
deserializeData(glyphs, data) ==
    deserializeFrom(glyphs, [i \in 1..Len(data) |-> Float32(data[i])], 0, 1)

\* Glyph tables: each of three charCodes is absent or has a glyph whose
\* metrics are small numbers or the double 2^24 + 1, which no float32 holds
GlyphMetrics == {1, 3, FLOAT32_EXACT + 1}

Glyph(c, v) ==
    [charCode |-> c, advance |-> v, planeLeft |-> 0, planeBottom |-> 2,
     planeRight |-> v, planeTop |-> 0, atlasLeft |-> c - 65, atlasBottom |-> 1,
     atlasRight |-> c - 64, atlasTop |-> 0]

GlyphTables ==
    UNION {[codes -> GlyphMetrics] : codes \in SUBSET {65, 66, 90}}

\* A font with a glyph table, nothing serialized yet
InitFont ==
    /\ InitRenderer
    /\ gpu = NoWrappers
    /\ gpuOp = NoOp
    /\ textOp = NoText
    /\ game = NoGame
    /\ \E t \in GlyphTables :
          fonts = [glyphs |-> [c \in DOMAIN t |-> Glyph(c, t[c])],
                   data |-> << >>, copy |-> NoGlyphs, state |-> "loaded"]

Font_serializeData ==
    /\ fonts.state = "loaded"
    /\ fonts' = [fonts EXCEPT !.data = serializeData(fonts.glyphs),
                              !.state = "serialized"]
    /\ UNCHANGED <<rendererVars, batchVars, lastOp, steps, gpu, gpuOp, textOp,
                   game, shapeOp, flood>>

\* new Font().deserializeData(data)
Font_deserializeData ==
    /\ fonts.state = "serialized"
    /\ fonts' = [fonts EXCEPT !.copy = deserializeData(NoGlyphs, fonts.data),
                              !.state = "copied"]
    /\ UNCHANGED <<rendererVars, batchVars, lastOp, steps, gpu, gpuOp, textOp,
                   game, shapeOp, flood>>

NextFont ==
    \/ Font_serializeData
    \/ Font_deserializeData

SpecFont == InitFont /\ [][NextFont]_vars

Rounded(glyph) == [name \in DOMAIN glyph |-> Float32(glyph[name])]

----------------------------------------------------------------------------
(* game.js: main, resize and the animation tick                             *)
(*                                                                          *)
(* A handler is the sequence of its statements, each a method call on one   *)
(* of the globals; the statements are taken a group at a time (a pass, an   *)
(* iteration of a loop). f is the program while a handler runs: the context *)
(* and the wrappers (g), the renderer (w), the SpriteBatch's buckets (b),   *)
(* the id of the next command (n), the globals (game).                      *)

Only(S) == CHOOSE x \in S : TRUE

Statement(op, on, args) == [op |-> op, on |-> on, args |-> args]

TILE_TYPES ==
    (1 :> "tile_sand") @@ (2 :> "tile_dirt") @@ (3 :> "tile_stone")
    @@ (4 :> "tile_block")

\* The colours update clears to, as the source writes them
SkyColour == <<"0.63^2.2", "0.88^2.2", "0.98^2.2", "1">>
Transparent == <<"0", "0", "0", "0">>

\* (Math.sin(8 * timestamp / 1000) + 1) / 2 is some number between 0 and 1
\* that depends on the timestamp alone; it is kept as the timestamp
Brightness(timestamp) == timestamp

\* The context calls the renderer made, made on the context the wrappers share
RECURSIVE Feed(_, _)
Feed(g, calls) ==
    IF calls = << >> THEN g
    ELSE LET e == Head(calls)
         IN  Feed(CASE e.call = "bindTexture" -> Texture_bindUnit(g, e.texture, 0)
                    [] e.call = "bufferSubData" ->
                          Context(g, GlCall("bufferSubData", "", Null, Null,
                                            <<e.offset, e.count>>))
                    [] e.call = "drawArrays" ->
                          Context(g, GlCall("drawArrays", "", Null, Null,
                                            <<e.count>>)),
                  Tail(calls))

\* A method of the renderer has run and left the renderer as the one of W
OnRenderer(f, W) ==
    Only({[f EXCEPT !.w = drawn, !.g = Feed(f.g, drawn.glCalls)] : drawn \in W})

\* Renderer.clear(r, g, b, a)
Renderer_clear(g, colour) ==
    Gl(Context(g, GlCall("clearColor", "", Null, Null, colour)), "clear", Null)

\* framebuffer.attachment.bind(textureUnit): an attachment that was never
\* set is undefined, and calling bind on it is a TypeError
Attachment_bind(g, id, textureUnit) ==
    IF g.objs[id].attachment = Undefined THEN Raise(g, "TypeError", "")
    ELSE Texture_bindUnit(g, g.objs[id].attachment, textureUnit)

\* framebuffer.attachTexture(new Texture(context, TEXTURE_2D, width, height))
AttachNewTexture(g, id, width, height) ==
    Only({Framebuffer_attachTexture(made, id, <<"Texture", made.created>>) :
             made \in {NewTexture(g, width, height)}})

\* framebuffer.attachRenderbuffer(new Renderbuffer(context, width, height))
AttachNewRenderbuffer(g, id, width, height) ==
    Only({Framebuffer_attachRenderbuffer(made, id,
                                         <<"Renderbuffer", made.created>>) :
             made \in {NewRenderbuffer(g, width, height)}})

\* textures[name] = new Texture(...).setImage(image), and for the sprites
\* .setParameter(TEXTURE_MAG_FILTER, NEAREST)
LoadTexture(f, name) ==
    Only({[f EXCEPT !.g = IF name = "font" THEN Texture_setImage(made.g, made.id)
                          ELSE Texture_setParameter(
                                   Texture_setImage(made.g, made.id), made.id),
                    !.game.textures = (name :> made.id) @@ @] :
             made \in {[g |-> NewTexture(f.g, 16, 16),
                        id |-> NewId(f.g, "Texture")]}})

\* One statement of a handler; nothing runs after an exception
Exec(f, s) ==
    LET g == f.g
        To(after) == [f EXCEPT !.g = after]
        Global(after, class) ==
            [f EXCEPT !.g = after,
                      !.game[s.on] = IF after.thrown THEN @
                                     ELSE <<class, after.created>>]
    IN
    CASE g.thrown -> f
      [] s.op = "new ShaderProgram" ->
            Global(NewShaderProgram(g, TRUE, TRUE, s.args[1], "log"),
                   "ShaderProgram")
      [] s.op = "new Renderer" ->
            [f EXCEPT !.g = NewRenderer(g),
                      !.game = Renderer_resize(@, s.args[1], s.args[2])]
      [] s.op = "new Framebuffer" ->
            Global(NewFramebuffer(g, s.args[1], s.args[2]), "Framebuffer")
      [] s.op = "new Texture" -> LoadTexture(f, s.on)
      [] s.op = "Renderer.resize" ->
            [f EXCEPT !.game = Renderer_resize(@, s.args[1], s.args[2])]
      [] s.op = "canvas.resize" -> [f EXCEPT !.game.canvas = s.args]
      [] s.op = "Renderer.clear" -> To(Renderer_clear(g, s.args))
      [] s.op = "Renderer.beginGeometry" ->
            OnRenderer(f, {beginGeometry([f.w EXCEPT !.glCalls = << >>])})
      [] s.op = "Renderer.drawRectangleOffCenter" ->
            OnRenderer(f, {drawRectangleOffCenter(
                               [f.w EXCEPT !.glCalls = << >>], s.args)})
      [] s.op = "Renderer.endGeometry" ->
            OnRenderer(f, {endGeometry([f.w EXCEPT !.glCalls = << >>])})
      [] s.op = "SpriteBatch.begin" -> [f EXCEPT !.b = begin(f.b)]
      [] s.op = "SpriteBatch.drawRectangle" ->
            [f EXCEPT !.b = addCommand(f.b, s.on,
                                       [id |-> f.n, name |-> "drawRectangle",
                                        args |-> s.args]),
                      !.n = f.n + 1]
      [] s.op = "SpriteBatch.end" ->
            OnRenderer(f, {end([f.w EXCEPT !.glCalls = << >>,
                                           !.replayed = << >>], f.b)})
      [] s.op = "Framebuffer.bind" -> To(Framebuffer_bind(g, s.on))
      [] s.op = "Framebuffer.unbind" -> To(Framebuffer_unbind(g, s.on))
      [] s.op = "Framebuffer.blit" -> To(Framebuffer_blit(g, s.on, s.args[1]))
      [] s.op = "Framebuffer.resize" ->
            To(Framebuffer_resize(g, s.on, s.args[1], s.args[2]))
      [] s.op = "Framebuffer.attachTexture" ->
            To(AttachNewTexture(g, s.on, s.args[1], s.args[2]))
      [] s.op = "Framebuffer.attachRenderbuffer" ->
            To(AttachNewRenderbuffer(g, s.on, s.args[1], s.args[2]))
      [] s.op = "attachment.bind" -> To(Attachment_bind(g, s.on, s.args[1]))
      [] s.op = "ShaderProgram.bind" -> To(ShaderProgram_bind(g, s.on))
      [] s.op = "ShaderProgram.setUniform" ->
            To(ShaderProgram_setUniform(g, s.on, s.args[1], s.args[2],
                                        s.args[3]))
      [] s.op = "ShaderProgram.setUniformInteger" ->
            To(ShaderProgram_setUniformInteger(g, s.on, s.args[1], s.args[2]))
      [] s.op = "ShaderProgram.setUniformMatrix" ->
            To(ShaderProgram_setUniformMatrix(g, s.on, s.args[1]))
      [] s.op = "context.viewport" ->
            To(Context(g, GlCall("viewport", "", Null, Null, s.args)))

\* The program after the first i statements, from the one program of S
RECURSIVE Run(_, _, _)
Run(S, statements, i) ==
    IF i = 0 THEN S
    ELSE {Exec(f, statements[i]) : f \in Run(S, statements, i - 1)}

\* The program after the first k groups of statements
RECURSIVE RunAll(_, _, _)
RunAll(S, groups, k) ==
    IF k = 0 THEN S
    ELSE {Only(Run({f}, groups[k], Len(groups[k]))) :
             f \in RunAll(S, groups, k - 1)}

\* The program f after the groups of statements that P holds
Ran(f, P) == Only({Only(RunAll({f}, groups, Len(groups))) : groups \in P})

\* gameObject.draw(): the Player and a TileEntity each draw one rectangle
DrawOf(globals, gameObject) ==
    Statement("SpriteBatch.drawRectangle",
              globals.textures[IF gameObject.objectType = "Player" THEN "player"
                            ELSE TILE_TYPES[gameObject.typeId]],
              <<gameObject.x * TILE_SIZE,
                (gameObject.y - globals.viewOffsetY) * TILE_SIZE,
                TILE_SIZE, TILE_SIZE, 0, 0, 1, 1, 1, 1, 1, 1>>)

ObjectDraws(globals, objects) ==
    [i \in 1..Len(objects) |-> DrawOf(globals, objects[i])]

\* The loop over the tiles: a tile of type 0 is skipped, the tile being
\* broken is drawn darker
TileDraws(globals) ==
    LET shown == SelectSeq([i \in 1..Len(globals.tiles) |-> i - 1],
                           LAMBDA i : globals.tiles[i + 1] # 0)
        progress == globals.breakingTile[3]
    IN  [k \in 1..Len(shown) |->
          LET x == shown[k] % TILES_COLUMNS
              y == shown[k] \div TILES_COLUMNS
              fade == IF globals.breakingTile[1] = x /\ globals.breakingTile[2] = y
                      THEN <<1 - progress, 1 - progress, 1 - progress,
                             1 - progress * progress>>
                      ELSE <<1, 1, 1, 1>>
          IN  Statement("SpriteBatch.drawRectangle",
                        globals.textures[TILE_TYPES[globals.tiles[shown[k] + 1]]],
                        <<x * TILE_SIZE, (y - globals.viewOffsetY) * TILE_SIZE,
                          TILE_SIZE, TILE_SIZE, 0, 0, 1, 1>> \o fade)]

\* renderer.beginGeometry(); renderer.drawRectangleOffCenter(0, 0, 2, 2, 0, 0,
\* 1, 1, 1, 1, 1, 1); renderer.endGeometry()
FullScreenQuad ==
    <<Statement("Renderer.beginGeometry", Null, << >>),
      Statement("Renderer.drawRectangleOffCenter", Null,
                <<0, 0, 2, 2, 0, 0, 1, 1, 1, 1, 1, 1>>),
      Statement("Renderer.endGeometry", Null, << >>)>>

\* framebufferMultisample.bind(); renderer.clear(...);
\* sceneShaderProgram.bind().setUniformMatrix('matrix', renderer.matrix);
\* spriteBatch.begin()
BeginPass(globals, colour) ==
    <<Statement("Framebuffer.bind", globals.framebufferMultisample, << >>),
      Statement("Renderer.clear", Null, colour),
      Statement("ShaderProgram.bind", globals.sceneShaderProgram, << >>),
      Statement("ShaderProgram.setUniformMatrix", globals.sceneShaderProgram,
                <<"matrix">>),
      Statement("SpriteBatch.begin", Null, << >>)>>

EndPass_bound(globals, target) ==
    <<Statement("SpriteBatch.end", Null, << >>),
      Statement("Framebuffer.blit", globals.framebufferMultisample, <<target>>),
      Statement("Framebuffer.unbind", globals.framebufferMultisample, << >>)>>

\* spriteBatch.end(); framebufferMultisample.unbind();
\* framebufferMultisample.blit(target)
EndPass(globals, target) ==
    <<Statement("SpriteBatch.end", Null, << >>),
      Statement("Framebuffer.unbind", globals.framebufferMultisample, << >>),
      Statement("Framebuffer.blit", globals.framebufferMultisample, <<target>>)>>

\* One half of the body of the blur loop: the program with its direction,
\* the framebuffer written, the attachment sampled, the quad
BlurPass(globals, horizontal, written, sampled) ==
    <<Statement("ShaderProgram.bind", globals.blurShaderProgram, << >>),
      Statement("ShaderProgram.setUniform", globals.blurShaderProgram,
                <<"horizontal", TRUE, horizontal>>),
      Statement("Framebuffer.bind", written, << >>),
      Statement("attachment.bind", sampled, <<0>>)>>
    \o FullScreenQuad
    \o <<Statement("Framebuffer.unbind", written, << >>)>>

BlurIteration_inPlace(globals) ==
    BlurPass(globals, TRUE, globals.pingFramebuffer, globals.pongFramebuffer)
    \o BlurPass(globals, FALSE, globals.pongFramebuffer, globals.pongFramebuffer)

\* The body of the blur loop: horizontally from pong into ping, vertically
\* from ping into pong
BlurIteration(globals) ==
    BlurPass(globals, TRUE, globals.pingFramebuffer, globals.pongFramebuffer)
    \o BlurPass(globals, FALSE, globals.pongFramebuffer, globals.pingFramebuffer)

\* for (let i = 0; i < 4; i++) { ... }
RECURSIVE BlurFrom(_, _)
BlurFrom(globals, i) ==
    IF i < BLUR_ITERATIONS THEN <<BlurIteration(globals)>> \o BlurFrom(globals, i + 1)
    ELSE << >>

Composite_ping(globals, timestamp) ==
    <<Statement("context.viewport", Null, <<globals.width, globals.height>>),
      Statement("ShaderProgram.bind", globals.screenShaderProgram, << >>),
      Statement("ShaderProgram.setUniformInteger", globals.screenShaderProgram,
                <<"blurTexture", 1>>),
      Statement("ShaderProgram.setUniform", globals.screenShaderProgram,
                <<"blurBrightness", FALSE, Brightness(timestamp)>>),
      Statement("attachment.bind", globals.framebuffer, <<0>>),
      Statement("attachment.bind", globals.pingFramebuffer, <<1>>)>>
    \o FullScreenQuad

\* The last statements of update: the viewport, the screen program, the
\* base image on unit 0 and the blurred one on unit 1, the quad
Composite(globals, timestamp) ==
    <<Statement("context.viewport", Null, <<globals.width, globals.height>>),
      Statement("ShaderProgram.bind", globals.screenShaderProgram, << >>),
      Statement("ShaderProgram.setUniformInteger", globals.screenShaderProgram,
                <<"blurTexture", 1>>),
      Statement("ShaderProgram.setUniform", globals.screenShaderProgram,
                <<"blurBrightness", FALSE, Brightness(timestamp)>>),
      Statement("attachment.bind", globals.framebuffer, <<0>>),
      Statement("attachment.bind", globals.pongFramebuffer, <<1>>)>>
    \o FullScreenQuad

BloomObjects_all(objects) == objects

\* for (const gameObject of gameObjects)
\*     if (gameObject.objectType === 'TileEntity') gameObject.draw();
BloomObjects(objects) ==
    SelectSeq(objects, LAMBDA o : o.objectType = "TileEntity")

\* The rendering statements of update(timestamp): the scene, the bloom
\* objects, the iterations of the blur, the composition
Draw(globals, timestamp) ==
    <<BeginPass(globals, SkyColour)
        \o ObjectDraws(globals, globals.gameObjects) \o TileDraws(globals)
        \o EndPass(globals, globals.framebuffer),
      BeginPass(globals, Transparent)
        \o ObjectDraws(globals, BloomObjects(globals.gameObjects))
        \o EndPass(globals, globals.pongFramebuffer)>>
    \o BlurFrom(globals, 0)
    \o <<Composite(globals, timestamp)>>

\* const MAX_DELTA_TIME = 1000 / 30
MAX_DELTA_TIME == Over(Whole(1000), Whole(30))

DeltaTime_unclamped(prevTimestamp, timestamp) ==
    IF prevTimestamp # << >> THEN Whole(timestamp - prevTimestamp[1])
    ELSE Whole(0)

\* Math.min((prevTimestamp !== null) ? timestamp - prevTimestamp : 0,
\*          MAX_DELTA_TIME)
DeltaTime(prevTimestamp, timestamp) ==
    Min(IF prevTimestamp # << >> THEN Whole(timestamp - prevTimestamp[1])
        ELSE Whole(0),
        MAX_DELTA_TIME)

\* update(timestamp): deltaTime is what every gameObject.update is given; the
\* game objects' own update is the rules of the game, which leave `objects`
\* and `breakingTile`; the Player's update moves the view
update(f, timestamp, objects, breakingTile) ==
    Ran([f EXCEPT !.game.deltaTime = DeltaTime(f.game.prevTimestamp, timestamp),
                  !.game.prevTimestamp = <<timestamp>>,
                  !.game.gameObjects = objects,
                  !.game.breakingTile = breakingTile,
                  !.game.viewOffsetY = objects[1].y - 5],
        {Draw([f.game EXCEPT !.gameObjects = objects,
                             !.breakingTile = breakingTile,
                             !.viewOffsetY = objects[1].y - 5], timestamp)})

Resizing_staleRenderer(globals, size) ==
    LET Textured(id) == <<Statement("Framebuffer.resize", id, size),
                          Statement("Framebuffer.attachTexture", id, size)>>
    IN  <<Statement("canvas.resize", Null, size),
          Statement("Framebuffer.resize", globals.framebufferMultisample, size),
          Statement("Framebuffer.attachRenderbuffer",
                    globals.framebufferMultisample, size)>>
        \o Textured(globals.framebuffer) \o Textured(globals.pingFramebuffer)
        \o Textured(globals.pongFramebuffer)

Resizing_keepPing(globals, size) ==
    LET Textured(id) == <<Statement("Framebuffer.resize", id, size),
                          Statement("Framebuffer.attachTexture", id, size)>>
    IN  <<Statement("canvas.resize", Null, size),
          Statement("Renderer.resize", Null, size),
          Statement("Framebuffer.resize", globals.framebufferMultisample, size),
          Statement("Framebuffer.attachRenderbuffer",
                    globals.framebufferMultisample, size)>>
        \o Textured(globals.framebuffer)
        \o <<Statement("Framebuffer.resize", globals.pingFramebuffer, size)>>
        \o Textured(globals.pongFramebuffer)

\* The statements of resize(): the canvas, the renderer and the four
\* framebuffers take the canvas's client size; each framebuffer gets a new
\* attachment of that size
Resizing(globals, size) ==
    LET Textured(id) == <<Statement("Framebuffer.resize", id, size),
                          Statement("Framebuffer.attachTexture", id, size)>>
    IN  <<Statement("canvas.resize", Null, size),
          Statement("Renderer.resize", Null, size),
          Statement("Framebuffer.resize", globals.framebufferMultisample, size),
          Statement("Framebuffer.attachRenderbuffer",
                    globals.framebufferMultisample, size)>>
        \o Textured(globals.framebuffer) \o Textured(globals.pingFramebuffer)
        \o Textured(globals.pongFramebuffer)

resize(f, clientSize) == Ran(f, {<<Resizing(f.game, clientSize)>>})

TextureNames ==
    <<"white", "tile_dirt", "tile_stone", "tile_sand", "tile_block", "player",
      "font">>

\* The statements of main() up to the await: the four programs, the
\* renderer, the four framebuffers
Creating(canvasSize, clientSize, links) ==
    <<Statement("new ShaderProgram", "sceneShaderProgram", <<TRUE>>),
      Statement("new ShaderProgram", "screenShaderProgram", <<TRUE>>),
      Statement("new ShaderProgram", "fontShaderProgram", <<TRUE>>),
      Statement("new ShaderProgram", "blurShaderProgram", <<links>>),
      Statement("new Renderer", Null, canvasSize),
      Statement("new Framebuffer", "framebufferMultisample", clientSize),
      Statement("new Framebuffer", "framebuffer", clientSize),
      Statement("new Framebuffer", "pingFramebuffer", clientSize),
      Statement("new Framebuffer", "pongFramebuffer", clientSize)>>

\* The images have loaded, in the order they were requested
Loading ==
    [i \in 1..Len(TextureNames) |->
        Statement("new Texture", TextureNames[i], << >>)]

\* main(): the canvas is found as the document sized it; when a program does
\* not link, or an asset does not load, main ends
\* before the listeners are added and the first frame is requested; otherwise
\* the textures are made and main ends with resize()
main(f, canvasSize, clientSize, links, loaded) ==
    Only({[IF made.g.thrown \/ ~loaded THEN made
           ELSE Ran(made, {<<Loading, Resizing(made.game, clientSize)>>})
             EXCEPT !.game.stage = IF made.g.thrown \/ ~loaded
                                   THEN "failed" ELSE "running"] :
             made \in {Ran([f EXCEPT !.game.canvas = canvasSize],
                            {<<Creating(canvasSize, clientSize, links)>>})}})

----------------------------------------------------------------------------
(* The page: main once, then resize events and animation frames             *)

CanvasSizes == {<<4, 2>>, <<8, 4>>}

Timestamps == {16, 40, 50}

ThePlayer == [objectType |-> "Player", x |-> 3, y |-> 0]

\* new TileEntity(x, y, typeId, group): isFalling is false until the
\* entity's update has seen its lifetime pass 2000 ms
TileEntity(x, y, typeId, isFalling) ==
    [objectType |-> "TileEntity", x |-> x, y |-> y, typeId |-> typeId,
     isFalling |-> isFalling]

\* What the rules of the game can leave in gameObjects: the Player first,
\* then the TileEntity objects that breakTile pushed, in their first two
\* seconds or falling
GameObjectLists ==
    { <<ThePlayer>>,
      <<ThePlayer, TileEntity(2, 1, 2, TRUE)>>,
      <<[ThePlayer EXCEPT !.y = 1], TileEntity(2, 1, 2, FALSE),
        TileEntity(4, 2, 4, TRUE)>> }

BreakingTiles == {<<-1, -1, 0>>, <<1, 0, 1>>}

InitFrame == Init

\* The program as a handler finds it
Running ==
    [g |-> Quiet(gpu), w |-> Fresh(Here), b |-> buckets, n |-> nextId,
     game |-> game]

Handler(op) ==
    /\ steps < MaxFrameSteps
    /\ steps' = steps + 1
    /\ lastOp' = op
    /\ UNCHANGED <<gpuOp, textOp, fonts, recorded, expected, phase, shapeOp, flood>>

\* The program as the handler leaves it
Handled(S) ==
    \E f \in S :
        /\ gpu' = f.g
        /\ Becomes(f.w)
        /\ buckets' = f.b
        /\ nextId' = f.n
        /\ game' = f.game

\* DOMContentLoaded: main()
Main ==
    \E canvasSize \in CanvasSizes, clientSize \in CanvasSizes,
       links \in BOOLEAN, loaded \in BOOLEAN :
        /\ game.stage = "loading"
        /\ Handler("main")
        /\ Handled({main(Running, canvasSize, clientSize, links, loaded)})

\* A resize event of the window: the listener is added by main
Resize ==
    \E clientSize \in CanvasSizes :
        /\ game.stage = "running"
        /\ Handler("resize")
        /\ Handled({resize(Running, clientSize)})

\* An animation frame: update(timestamp); the first is requested by main,
\* each frame requests the next before anything else
Tick ==
    \E timestamp \in Timestamps, objects \in GameObjectLists,
       breakingTile \in BreakingTiles :
        /\ game.stage = "running"
        /\ game.prevTimestamp # << >> => game.prevTimestamp[1] <= timestamp
        /\ Handler("update")
        /\ Handled({update(Running, timestamp, objects, breakingTile)})

NextFrame ==
    \/ Main
    \/ Resize
    \/ Tick

SpecFrame == InitFrame /\ [][NextFrame]_vars

----------------------------------------------------------------------------
(* The frame: the order of the passes, the blur *)

\* The context calls of the handler that ran last that satisfy a test are
\* found by index; LastOf(J) is the latest of the indices J
LastOf(J) == CHOOSE j \in J : \A k \in J : k <= j

FirstOf(J) == CHOOSE j \in J : \A k \in J : j <= k

\* framebuffer.bind() and framebuffer.unbind() bind the target FRAMEBUFFER
IsFramebufferBind(i) ==
    gpu.calls[i].call = "bindFramebuffer" /\ gpu.calls[i].target = "FRAMEBUFFER"

IsPassCall(i) ==
    \/ IsFramebufferBind(i)
    \/ gpu.calls[i].call \in {"clearColor", "blitFramebuffer", "drawArrays"}
    \/ gpu.calls[i].call = "viewport"

Mark(kind, a, b) == [kind |-> kind, a |-> a, b |-> b]

PassMark(c) ==
    CASE c.call = "bindFramebuffer" -> Mark("bind", c.h, Null)
      [] c.call = "clearColor" ->
            Mark("clear", <<IF c.nums = SkyColour THEN "sky"
                            ELSE IF c.nums = Transparent THEN "transparent"
                            ELSE "other", 0>>, Null)
      [] c.call = "blitFramebuffer" -> Mark("blit", c.h, c.h2)
      [] c.call = "drawArrays" -> Mark("draw", Null, Null)
      [] c.call = "viewport" -> Mark("viewport", Null, Null)

\* The calls that delimit the passes, in order, the draw calls that follow
\* one another counted as one
Passes ==
    LET Kept(i) ==
            /\ IsPassCall(i)
            /\ gpu.calls[i].call = "drawArrays" =>
                  LET P == {j \in 1..(i - 1) : IsPassCall(j)}
                  IN  P = {} \/ gpu.calls[LastOf(P)].call # "drawArrays"
        kept == SelectSeq([i \in 1..Len(gpu.calls) |-> i], LAMBDA i : Kept(i))
    IN  [k \in 1..Len(kept) |-> PassMark(gpu.calls[kept[k]])]

\* The order the passes are to have
PassOrder ==
    LET ms == game.framebufferMultisample
        ping == game.pingFramebuffer
        pong == game.pongFramebuffer
        Into(x) == <<Mark("bind", x, Null), Mark("draw", Null, Null),
                     Mark("bind", Null, Null)>>
        Iteration == Into(ping) \o Into(pong)
        bloom == IF \E i \in 1..Len(game.gameObjects) :
                        game.gameObjects[i].objectType = "TileEntity"
                 THEN <<Mark("draw", Null, Null)>> ELSE << >>
    IN  <<Mark("bind", ms, Null), Mark("clear", <<"sky", 0>>, Null),
          Mark("draw", Null, Null), Mark("bind", Null, Null),
          Mark("blit", ms, game.framebuffer),
          Mark("bind", ms, Null), Mark("clear", <<"transparent", 0>>, Null)>>
        \o bloom
        \o <<Mark("bind", Null, Null), Mark("blit", ms, pong)>>
        \o Iteration \o Iteration \o Iteration \o Iteration
        \o <<Mark("viewport", Null, Null), Mark("draw", Null, Null)>>

\* C19: a tick issues its passes in the fixed order: the multisampled
\* framebuffer bound, cleared to the sky colour, the scene drawn; unbound and
\* blitted into the base framebuffer; bound again, cleared to transparent, the
\* bloom sources drawn; unbound and blitted into the pong framebuffer; the
\* blur sub-passes; the composite drawn with no framebuffer bound. At each
\* blit the latest framebuffer bind is the unbind of the multisampled one.
C19_FixedPassOrder ==
    lastOp = "update" =>
        /\ ~gpu.thrown
        /\ Passes = PassOrder
        /\ \A i \in 1..Len(gpu.calls) :
              gpu.calls[i].call = "blitFramebuffer" =>
                  LET B == {j \in 1..(i - 1) : IsFramebufferBind(j)}
                      U == LastOf(B)
                      before == {j \in B : j < U}
                  IN  /\ gpu.calls[U].h = Null
                      /\ gpu.calls[LastOf(before)].h
                            = game.framebufferMultisample
                      /\ gpu.calls[i].h = game.framebufferMultisample
        /\ gpu.bound.framebuffer = Null

C19_Witness ==
    /\ lastOp = "update"
    /\ Len(game.gameObjects) = 3
    /\ Len(SelectSeq(gpu.calls, LAMBDA c : c.call = "blitFramebuffer")) = 2
    /\ Len(Passes) = 36
    /\ gpu.calls[Len(gpu.calls)].call = "drawArrays"

\* What was bound or set when the i-th call was made
ProgramAt(i) ==
    gpu.calls[LastOf({j \in 1..(i - 1) : gpu.calls[j].call = "useProgram"})].h

FramebufferAt(i) ==
    gpu.calls[LastOf({j \in 1..(i - 1) : IsFramebufferBind(j)})].h

HorizontalAt(i) ==
    gpu.calls[LastOf({j \in 1..(i - 1) :
                        /\ gpu.calls[j].call = "uniform1i"
                        /\ gpu.calls[j].target = "horizontal"})].nums[1]

\* The texture bound to a unit: the latest bindTexture made while the unit
\* was the active one
TextureAt(i, textureUnit) ==
    LET Active(j) ==
            gpu.calls[LastOf({k \in 1..(j - 1) :
                                gpu.calls[k].call = "activeTexture"})].nums[1]
    IN  gpu.calls[LastOf({j \in 1..(i - 1) :
                            /\ gpu.calls[j].call = "bindTexture"
                            /\ Active(j) = textureUnit})].h

\* The blur sub-passes of the tick: each starts where a framebuffer is bound
\* under the blur program and ends where the next framebuffer bind is made
SubPasses ==
    LET starts == SelectSeq([i \in 1..Len(gpu.calls) |-> i],
                            LAMBDA i : /\ IsFramebufferBind(i)
                                       /\ gpu.calls[i].h # Null
                                       /\ i > 1
                                       /\ gpu.calls[i - 1].call = "uniform1i"
                                       /\ ProgramAt(i) = game.blurShaderProgram)
    IN  [k \in 1..Len(starts) |->
          LET i == starts[k]
              end_ == FirstOf({j \in (i + 1)..Len(gpu.calls) :
                                 IsFramebufferBind(j)})
              draws == {j \in (i + 1)..(end_ - 1) :
                          gpu.calls[j].call = "drawArrays"}
          IN  [written |-> gpu.calls[i].h,
               horizontal |-> HorizontalAt(i),
               draws |-> Cardinality(draws),
               sampled |-> {TextureAt(j, 0) : j \in draws},
               closed |-> gpu.calls[end_].h = Null]]

\* C20: in a tick, whatever the size of the framebuffers, the blur is 8
\* sub-passes: the odd ones horizontal, writing the ping framebuffer and
\* sampling the attachment of the pong framebuffer, the even ones vertical,
\* writing the pong framebuffer and sampling the attachment of the ping
\* framebuffer; none samples the attachment of the framebuffer it writes.
C20_BlurAlternates ==
    lastOp = "update" =>
        LET ping == game.pingFramebuffer
            pong == game.pongFramebuffer
        IN  /\ Len(SubPasses) = 2 * BLUR_ITERATIONS
            /\ BLUR_ITERATIONS = 4
            /\ \A k \in 1..Len(SubPasses) :
                  LET pass == SubPasses[k]
                  IN  /\ pass.draws >= 1
                      /\ pass.closed
                      /\ pass.horizontal = (IF k % 2 = 1 THEN 1 ELSE 0)
                      /\ pass.written = (IF k % 2 = 1 THEN ping ELSE pong)
                      /\ pass.sampled =
                            {gpu.objs[IF k % 2 = 1 THEN pong ELSE ping].attachment}
                      /\ gpu.objs[pass.written].attachment \notin pass.sampled
                      /\ pass.sampled \subseteq DOMAIN gpu.objs
                      /\ \A t \in pass.sampled : gpu.objs[t].handle = t

\* A tick after the window was resized from 4x2 to 8x4
C20_Witness ==
    /\ lastOp = "update"
    /\ game.width = 8
    /\ gpu.objs[game.pingFramebuffer].width = 8
    /\ gpu.objs[gpu.objs[game.pingFramebuffer].attachment].width = 8
    /\ \E t \in DOMAIN gpu.objs : t[1] = "Texture" /\ gpu.objs[t].width = 4
                                 /\ gpu.objs[t].handle = Null
    /\ Len(SubPasses) = 8
    /\ SubPasses[8].written = game.pongFramebuffer
    /\ SubPasses[8].sampled = {gpu.objs[game.pingFramebuffer].attachment}

----------------------------------------------------------------------------
(* The bloom pass: what is recorded between the second begin() and end()    *)

\* The commands the SpriteBatch holds: begin() clears them and end() keeps
\* them, so after a tick they are those of the tick's second pass
Held ==
    UNION {{[texture |-> buckets[i].texture, name |-> c.name, args |-> c.args,
             id |-> c.id] : c \in {buckets[i].commands[k] :
                                      k \in 1..Len(buckets[i].commands)}} :
              i \in 1..Len(buckets)}

\* The command c is the one that the statement s records
Records(c, s) ==
    c.name = "drawRectangle" /\ c.texture = s.on /\ c.args = s.args

TileEntities ==
    {game.gameObjects[i] : i \in {j \in 1..Len(game.gameObjects) :
                                     game.gameObjects[j].objectType = "TileEntity"}}

\* C21 as stated: after a tick every command held was recorded for a tile
\* entity that is falling; none for the Player, a grid tile, or an object
\* that is not a falling tile entity.
C21_OnlyFallingRedrawn ==
    lastOp = "update" =>
        \A c \in Held :
            \E o \in TileEntities : o.isFalling /\ Records(c, DrawOf(game, o))

\* C21: in the bloom pass of a tick the objects redrawn are those whose
\* objectType is TileEntity, each once, whether isFalling is set or not yet;
\* no command is recorded for the Player or for a tile of the grid.
C21_OnlyTileEntitiesRedrawn ==
    lastOp = "update" =>
        /\ ~gpu.thrown
        /\ \A c \in Held : \E o \in TileEntities : Records(c, DrawOf(game, o))
        /\ \A o \in TileEntities : \E c \in Held : Records(c, DrawOf(game, o))
        /\ Cardinality(Held)
              = Len(SelectSeq(game.gameObjects,
                              LAMBDA o : o.objectType = "TileEntity"))
        /\ \A c \in Held :
              /\ ~Records(c, DrawOf(game, game.gameObjects[1]))
              /\ \A k \in 1..Len(TileDraws(game)) :
                    ~Records(c, TileDraws(game)[k])

\* A tick with the Player, a tile entity still in its first two seconds and
\* a falling one, over a grid with tiles: two commands are held
C21_Witness ==
    /\ lastOp = "update"
    /\ Len(game.gameObjects) = 3
    /\ \E o \in TileEntities : ~o.isFalling
    /\ \E o \in TileEntities : o.isFalling
    /\ Len(TileDraws(game)) = 2
    /\ Cardinality(Held) = 2
    /\ Len(SelectSeq(replayed, LAMBDA e : e.call = "drawRectangle")) = 2

----------------------------------------------------------------------------
(* resize(): the framebuffers and their attachments *)

Framebuffers ==
    {game.framebufferMultisample, game.framebuffer, game.pingFramebuffer,
     game.pongFramebuffer}

\* resize() has just run: as the listener, or as the last statement of main
Resized == lastOp = "resize" \/ (lastOp = "main" /\ game.stage = "running")

\* The resources that were attached to a framebuffer, in order of attachment
AttachedBefore(id) ==
    SelectSeq(gpu.attached, LAMBDA e : e[1] = id)

\* The context allocated the storage of the resource in the handler that ran
\* last: created, then given storage of the size
AllocatedNow(resource, size) ==
    \E i, j \in 1..Len(gpu.calls) :
        /\ i < j
        /\ gpu.calls[i].call = (IF resource[1] = "Texture" THEN "createTexture"
                                ELSE "createRenderbuffer")
        /\ gpu.calls[i].h = resource
        /\ gpu.calls[j].call = (IF resource[1] = "Texture" THEN "texImage2D"
                                ELSE "renderbufferStorageMultisample")
        /\ gpu.calls[j].nums = size
        /\ \A k \in (i + 1)..(j - 1) :
              gpu.calls[k].call \in {"activeTexture", "bindTexture",
                                     "bindRenderbuffer"}

\* C22: after resize() to the canvas's client size each of the four
\* framebuffers has that width and height and a live attachment of exactly
\* that size allocated by this resize; every attachment it held before has
\* been deleted, the one it held last by this resize; the Renderer's width
\* and height are that size.
C22_ResizeReallocates ==
    Resized =>
        /\ ~gpu.thrown
        /\ <<game.width, game.height>> = game.canvas
        /\ \A fb \in Framebuffers :
              LET held == AttachedBefore(fb)
                  now == gpu.objs[fb].attachment
              IN  /\ <<gpu.objs[fb].width, gpu.objs[fb].height>> = game.canvas
                  /\ now # Undefined
                  /\ held[Len(held)][2] = now
                  /\ now[1] = (IF fb = game.framebufferMultisample
                               THEN "Renderbuffer" ELSE "Texture")
                  /\ gpu.objs[now].handle = now
                  /\ <<gpu.objs[now].width, gpu.objs[now].height>> = game.canvas
                  /\ AllocatedNow(now, game.canvas)
                  /\ \A i \in 1..(Len(held) - 1) :
                        /\ held[i][2] # now
                        /\ gpu.objs[held[i][2]].handle = Null
                        /\ Times(gpu.freed, held[i][2]) = 1
                  /\ Len(held) > 1 =>
                        \E k \in 1..Len(gpu.calls) :
                            /\ gpu.calls[k].call \in DeletionPrimitives
                            /\ gpu.calls[k].h = held[Len(held) - 1][2]

\* A resize event from 4 x 2 to 8 x 4: the four attachments of 4 x 2 are
\* deleted, the four of 8 x 4 are attached
C22_Witness ==
    /\ lastOp = "resize"
    /\ game.canvas = <<8, 4>>
    /\ \A fb \in Framebuffers :
          /\ Len(AttachedBefore(fb)) = 2
          /\ gpu.objs[AttachedBefore(fb)[1][2]].width = 4
          /\ gpu.objs[AttachedBefore(fb)[1][2]].handle = Null
          /\ gpu.objs[gpu.objs[fb].attachment].width = 8
    /\ Len(SelectSeq(gpu.calls, LAMBDA c : c.call \in DeletionPrimitives)) = 4

----------------------------------------------------------------------------
(* Renderer.resize on its own: any width and height *)

\* renderer.resize(width, height), as the constructor and resize() call it
Renderer_resize_call ==
    \E width \in 0..MaxSize, height \in 0..MaxSize :
        /\ steps < MaxResizes
        /\ steps' = steps + 1
        /\ lastOp' = "Renderer.resize"
        /\ game' = Renderer_resize(game, width, height)
        /\ UNCHANGED <<rendererVars, batchVars, gpu, gpuOp, textOp, fonts,
                       shapeOp, flood>>

NextMatrix == Renderer_resize_call

SpecMatrix == Init /\ [][NextMatrix]_vars

\* C23 as stated: the first two diagonal terms are -2/width and 2/height:
\* matrix[0] * width = -2 and matrix[5] * height = 2.
C23_DiagonalAsStated ==
    lastOp = "Renderer.resize" /\ game.width # 0 /\ game.height # 0 =>
        /\ Mult(game.matrix[1], Whole(game.width)) = Whole(-2)
        /\ Mult(game.matrix[6], Whole(game.height)) = Whole(2)

\* C23: after Renderer.resize(width, height) the first diagonal term is
\* 2/width and the second is -2/height (the Y axis is the flipped one):
\* matrix[0] * width = 2 and matrix[5] * height = -2 when width and height
\* are not 0; a width or height of 0 makes the term -Infinity.
C23_DiagonalTerms ==
    lastOp = "Renderer.resize" =>
        /\ game.matrix[1] = (IF game.width = 0 THEN <<-1, 0>>
                             ELSE Fraction(2, game.width))
        /\ game.matrix[6] = (IF game.height = 0 THEN <<-1, 0>>
                             ELSE Fraction(-2, game.height))
        /\ game.width # 0 =>
              Mult(game.matrix[1], Whole(game.width)) = Whole(2)
        /\ game.height # 0 =>
              Mult(game.matrix[6], Whole(game.height)) = Whole(-2)

C23_Witness ==
    /\ lastOp = "Renderer.resize"
    /\ game.width = 3
    /\ game.height = 7
    /\ game.matrix[1] = <<2, 3>>
    /\ game.matrix[6] = <<-2, 7>>
    /\ game.matrix[13] = Whole(-1)
    /\ game.matrix[14] = Whole(1)

----------------------------------------------------------------------------
(* The renderer's capacity check and its idle state *)

\* The step is a call of drawTriangle on a renderer that has a count
TriangleDrawn ==
    lastOp' = "drawTriangle" /\ steps' = steps + 1 /\ vertexCount # NaN
    /\ ~thrown'

\* C24: drawTriangle ends the batch (upload and draw) and begins a new one
\* when, and only when, three more vertices would make the count exceed
\* MAX_VERTICES; a triangle that fits is appended to the current batch
\* without a flush.
C24_FlushOnlyOnOverflow ==
    [][TriangleDrawn =>
          /\ (Len(glCalls') > Len(glCalls)) <=> (vertexCount + 3 > MAX_VERTICES)
          /\ vertexCount + 3 <= MAX_VERTICES => vertexCount' = vertexCount + 3
      ]_vars

\* What the code does: the flush comes one triangle early, when the three
\* vertices would fill the batch to MAX_VERTICES exactly
C24_FlushWhenFull ==
    [][TriangleDrawn =>
          /\ (Len(glCalls') > Len(glCalls)) <=> (vertexCount + 3 >= MAX_VERTICES)
          /\ vertexCount' = (IF vertexCount + 3 >= MAX_VERTICES THEN 3
                             ELSE vertexCount + 3)
      ]_vars

\* C25: endGeometry returns the renderer to the idle state: after the
\* endGeometry that ended a batch, a further endGeometry with no
\* beginGeometry and no vertex in between issues no upload and no draw call.
C25_EndGeometryIdles ==
    [][phase = "ended" /\ lastOp = "endGeometry" /\ lastOp' = "endGeometry"
       /\ steps' = steps + 1
          => glCalls' = glCalls]_vars

\* What the code does: endGeometry leaves vertexCount as it is, so the
\* further endGeometry uploads and draws the same vertices again
C25_EndGeometryRedraws ==
    [][phase = "ended" /\ lastOp = "endGeometry" /\ lastOp' = "endGeometry"
       /\ steps' = steps + 1
          => /\ vertexCount' = vertexCount
             /\ vertexCount > 0 =>
                   /\ Len(glCalls') = Len(glCalls) + 2
                   /\ glCalls'[Len(glCalls')] = glCalls[Len(glCalls)]
             /\ vertexCount = 0 => glCalls' = glCalls]_vars

----------------------------------------------------------------------------
(* The shape emitters on their own: batches filled by shapes only *)

\* ax .. av, bx .. bv, cx .. cv, dx .. dv, r, g, b, a
ShapeQuads ==
    {<<20, 0, 0, 0, 22, 1, 1, 0, 23, 3, 1, 1, 21, 2, 0, 1, 9, 8, 7, 6>>}

\* x, y, width, height: the halves of the widths and heights are whole
ShapeBoxes == {<<0, 0, 2, 2>>, <<5, -3, 4, 6>>}

\* u0, v0, u1, v1, r, g, b, a
ShapeLook == <<0, 0, 1, 1, 9, 8, 7, 6>>

\* A shape emitter is called with arguments p on the renderer and leaves it
\* as w; `count` is the vertexCount it found and `before` the number of
\* vertices the batch had received
ShapeCall(method, p, w) ==
    /\ steps < MaxShapeSteps
    /\ steps' = steps + 1
    /\ lastOp' = method
    /\ Becomes(w)
    /\ shapeOp' = [method |-> method, args |-> p, count |-> vertexCount,
                   before |-> Len(Emitted)]
    /\ phase' = Later(phase)
    /\ UNCHANGED <<buckets, nextId, recorded, expected, gpu, gpuOp, textOp,
                   fonts, game, flood>>

Shape_drawTriangle ==
    \E p \in TriangleInputs :
        ShapeCall("drawTriangle", p, drawTriangle(Fresh(Here), p))

Shape_drawQuad ==
    \E p \in ShapeQuads : ShapeCall("drawQuad", p, drawQuad(Fresh(Here), p))

Shape_drawRectangle ==
    \E box \in ShapeBoxes :
        ShapeCall("drawRectangle", box \o ShapeLook,
                  drawRectangle(Fresh(Here), box \o ShapeLook))

Shape_drawRectangleOffCenter ==
    \E box \in ShapeBoxes :
        ShapeCall("drawRectangleOffCenter", box \o ShapeLook,
                  drawRectangleOffCenter(Fresh(Here), box \o ShapeLook))

Shape_drawRotatedRectangleOffCenter ==
    \E box \in ShapeBoxes, angle \in {0, 90} :
        ShapeCall("drawRotatedRectangleOffCenter",
                  box \o <<angle>> \o ShapeLook,
                  drawRotatedRectangleOffCenter(Fresh(Here),
                                                box \o <<angle>> \o ShapeLook))

NextShape ==
    \/ BeginGeometry(MaxShapeSteps)
    \/ EndGeometry(MaxShapeSteps)
    \/ Shape_drawTriangle
    \/ Shape_drawQuad
    \/ Shape_drawRectangle
    \/ Shape_drawRectangleOffCenter
    \/ Shape_drawRotatedRectangleOffCenter

SpecShape == Init /\ [][NextShape]_vars

\* The vertices the last shape emitter added to the batch
EmittedByShape == SubSeq(Emitted, shapeOp.before + 1, Len(Emitted))

Corner(x, y, u, v, colour) == <<x, y, u, v>> \o colour

\* C26: drawQuad(a, b, c, d, colour) appends exactly 6 vertices in the order
\* a, b, c, a, c, d, each with its own position and UV and the shared colour;
\* drawRectangle and drawRectangleOffCenter emit their corners top-left,
\* top-right, bottom-right, bottom-left through the same decomposition.
C26_QuadOrder ==
    (shapeOp.count # NaN /\ lastOp = shapeOp.method) =>
        LET p == shapeOp.args
            Quad(a, b, c, d) == EmittedByShape = <<a, b, c, a, c, d>>
            Box(left, top, right, bottom) ==
                LET colour == SubSeq(p, 9, 12)
                IN  Quad(Corner(left, top, p[5], p[6], colour),
                         Corner(right, top, p[7], p[6], colour),
                         Corner(right, bottom, p[7], p[8], colour),
                         Corner(left, bottom, p[5], p[8], colour))
        IN  /\ ~thrown
            /\ lastOp = "drawQuad" =>
                  LET colour == SubSeq(p, 17, 20)
                  IN  Quad(Corner(p[1], p[2], p[3], p[4], colour),
                           Corner(p[5], p[6], p[7], p[8], colour),
                           Corner(p[9], p[10], p[11], p[12], colour),
                           Corner(p[13], p[14], p[15], p[16], colour))
            /\ lastOp = "drawRectangle" =>
                  Box(p[1], p[2], p[1] + p[3], p[2] + p[4])
            /\ lastOp = "drawRectangleOffCenter" =>
                  /\ p[3] % 2 = 0 /\ p[4] % 2 = 0
                  /\ Box(p[1] - p[3] \div 2, p[2] - p[4] \div 2,
                         p[1] + p[3] \div 2, p[2] + p[4] \div 2)

\* A rectangle drawn off its center into a batch that holds a triangle: the
\* batch is flushed on the way and the six vertices are still the quad
C26_Witness ==
    /\ lastOp = "drawRectangleOffCenter"
    /\ shapeOp.args = <<5, -3, 4, 6>> \o ShapeLook
    /\ shapeOp.count = 3
    /\ Len(EmittedByShape) = 6
    /\ EmittedByShape[1] = <<3, -6, 0, 0, 9, 8, 7, 6>>
    /\ EmittedByShape[5] = <<7, 0, 1, 1, 9, 8, 7, 6>>
    /\ EmittedByShape[6] = <<3, 0, 0, 1, 9, 8, 7, 6>>
    /\ Len(SelectSeq(glCalls, LAMBDA c : c.call = "drawArrays")) >= 1

Positions(vs) == [i \in 1..Len(vs) |-> <<vs[i][1], vs[i][2]>>]

\* The vertices a renderer w has been given by the batch: drawn, or waiting
Sent(w) == Drawn(w.glCalls) \o [i \in 1..w.vertexCount |-> w.vertices[i]]

\* C27: for the same x, y, width and height, drawRotatedRectangleOffCenter
\* with angle 0 appends the same 6 vertex positions, in the same order, as
\* drawRectangleOffCenter does to the same renderer.
C27_RotatedByZero ==
    [][(steps' = steps + 1 /\ lastOp' = "drawRotatedRectangleOffCenter"
        /\ shapeOp'.args[5] = 0 /\ vertexCount # NaN) =>
          LET p == shapeOp'.args
              unrotated == drawRectangleOffCenter(
                               Fresh(Here), SubSeq(p, 1, 4) \o SubSeq(p, 6, 13))
          IN  /\ Len(EmittedByShape') = 6
              /\ Positions(EmittedByShape')
                    = Positions(SubSeq(Sent(unrotated), Len(Emitted) + 1,
                                       Len(Sent(unrotated))))
              /\ Len(Sent(unrotated)) = Len(Emitted) + 6]_vars

C27_Witness ==
    /\ lastOp = "drawRotatedRectangleOffCenter"
    /\ shapeOp.args = <<5, -3, 4, 6, 0>> \o ShapeLook
    /\ shapeOp.count = 3
    /\ Positions(EmittedByShape)
          = << <<3, -6>>, <<7, -6>>, <<7, 0>>, <<3, -6>>, <<7, 0>>, <<3, 0>> >>

----------------------------------------------------------------------------
(* The frame: the composite pass *)

\* The draw calls made under the screen program
CompositeDraws ==
    {i \in 1..Len(gpu.calls) :
        /\ gpu.calls[i].call = "drawArrays"
        /\ ProgramAt(i) = game.screenShaderProgram}

\* The sampler uniform of the screen program set last before the i-th call
SamplerAt(i, name) ==
    gpu.calls[LastOf({j \in 1..(i - 1) :
                        /\ gpu.calls[j].call = "uniform1i"
                        /\ gpu.calls[j].target = name})].nums[1]

\* C28: the composite pass of a tick is drawn with no framebuffer bound,
\* sampling the attachment of the base framebuffer on texture unit 0 and, on
\* texture unit 1, the attachment of the framebuffer that the last blur
\* sub-pass, the 8th and a vertical one, wrote.
C28_CompositeSamples ==
    lastOp = "update" =>
        LET last == SubPasses[Len(SubPasses)]
        IN  /\ ~gpu.thrown
            /\ CompositeDraws # {}
            /\ Len(SubPasses) = 8
            /\ last.horizontal = 0
            /\ last.written = game.pongFramebuffer
            /\ \A i \in CompositeDraws :
                  /\ FramebufferAt(i) = Null
                  /\ TextureAt(i, 0) = gpu.objs[game.framebuffer].attachment
                  /\ TextureAt(i, 1) = gpu.objs[last.written].attachment
                  /\ TextureAt(i, 0) # TextureAt(i, 1)
                  /\ gpu.objs[TextureAt(i, 0)].handle = TextureAt(i, 0)
                  /\ gpu.objs[TextureAt(i, 1)].handle = TextureAt(i, 1)
                  /\ SamplerAt(i, "blurTexture") = 1
                  /\ \A j \in 1..Len(gpu.calls) :
                        (IsFramebufferBind(j) /\ gpu.calls[j].h # Null) => j < i
            /\ gpu.calls[Len(gpu.calls)].call = "drawArrays"
            /\ Len(gpu.calls) \in CompositeDraws

\* The first tick after main, with falling tiles on the screen
C28_Witness ==
    /\ lastOp = "update"
    /\ steps = 2
    /\ Len(game.gameObjects) = 2
    /\ Cardinality(CompositeDraws) >= 1
    /\ TextureAt(Len(gpu.calls), 1) = gpu.objs[game.pongFramebuffer].attachment
    /\ gpu.bound.activeTexture = 1

----------------------------------------------------------------------------
(* The frame: the simulation step *)

\* C29: the deltaTime a tick passes to gameObject.update is 0 on the first
\* tick and min(timestamp - prevTimestamp, MAX_DELTA_TIME) afterwards, with
\* MAX_DELTA_TIME = 1000/30; animation timestamps never decrease, so
\* 0 <= deltaTime <= MAX_DELTA_TIME however long the frame stalled.
C29_DeltaTimeClamped ==
    [][(lastOp' = "update" /\ steps' = steps + 1) =>
          LET deltaTime == game'.deltaTime
              elapsed == game'.prevTimestamp[1] - game.prevTimestamp[1]
          IN  /\ MAX_DELTA_TIME = <<100, 3>>
              /\ ~Less(deltaTime, Whole(0))
              /\ ~Less(MAX_DELTA_TIME, deltaTime)
              /\ game.prevTimestamp = << >> => deltaTime = Whole(0)
              /\ game.prevTimestamp # << >> =>
                    /\ elapsed >= 0
                    /\ 30 * elapsed <= 1000 => deltaTime = Whole(elapsed)
                    /\ 30 * elapsed > 1000 => deltaTime = MAX_DELTA_TIME
      ]_vars

\* The second frame comes 34 ms after the first: the step is the ceiling
C29_Witness ==
    /\ lastOp = "update"
    /\ steps = 3
    /\ game.prevTimestamp = <<50>>
    /\ game.deltaTime = <<100, 3>>

\* The draw calls issued since the batch was begun
DrawCalls == SelectSeq(glCalls, LAMBDA c : c.call = "drawArrays")

\* C30: when geometry is added only through the shape emitters, every draw
\* call issued since beginGeometry, by an auto-flush or by endGeometry,
\* covers a positive multiple of 3 vertices: no triangle is split across two
\* draw calls.
C30_WholeTriangles ==
    phase # "new" =>
        /\ ~thrown
        /\ vertexCount % 3 = 0
        /\ \A i \in 1..Len(DrawCalls) :
              /\ DrawCalls[i].count > 0
              /\ DrawCalls[i].count % 3 = 0
              /\ Len(DrawCalls[i].covers) = DrawCalls[i].count
              /\ DrawCalls[i].count <= MAX_VERTICES

\* A rectangle that does not fit in one batch: its first triangle is drawn
\* by the auto-flush, its second by endGeometry
C30_Witness ==
    /\ lastOp = "endGeometry"
    /\ phase = "ended"
    /\ shapeOp.method = "drawRectangle"
    /\ Len(DrawCalls) = 2
    /\ DrawCalls[1].count = 3
    /\ DrawCalls[2].count = 3
    /\ DrawCalls[1].covers # DrawCalls[2].covers

----------------------------------------------------------------------------
(* SpriteBatch: the texture each draw call of end() is made under *)

\* The bind that precedes the a-th context call of end(), 0 when there is none
LastBind(a) ==
    LET binds == {k \in 1..(a - 1) : glCalls[k].call = "bindTexture"}
    IN  IF binds = {} THEN 0 ELSE CHOOSE k \in binds : \A j \in binds : j <= k

DrawsOfEnd == {a \in 1..Len(glCalls) : glCalls[a].call = "drawArrays"}

\* The vertices end() drew while the texture was the last one bound
DrawnUnder(texture) ==
    Drawn([a \in 1..Len(glCalls) |->
            IF /\ glCalls[a].call = "drawArrays"
               /\ LastBind(a) # 0
               /\ glCalls[LastBind(a)].texture = texture
            THEN glCalls[a]
            ELSE [call |-> "skipped"]])

\* The vertices the commands of one bucket make, whatever the capacity
RECURSIVE BucketVertices(_)
BucketVertices(commands) ==
    IF commands = <<>> THEN <<>>
    ELSE RefVertices(Head(commands).name, Head(commands).args)
         \o BucketVertices(Tail(commands))

\* C31: every draw call of end(), the draw calls of the auto-flushes in the
\* middle of a bucket included, is made while the texture last bound is the
\* texture of a bucket, and the draw calls made under one texture cover the
\* vertices of that bucket's commands, in order, and no others: no draw call
\* holds vertices of two buckets.
C31_DrawnUnderOwnTexture ==
    lastOp = "end" =>
        /\ ~thrown
        /\ \A a \in DrawsOfEnd :
              /\ LastBind(a) # 0
              /\ HasBucket(buckets, glCalls[LastBind(a)].texture)
              /\ boundTexture = glCalls[LastBind(Len(glCalls) + 1)].texture
        /\ \A k \in 1..Len(buckets) :
              DrawnUnder(buckets[k].texture) = BucketVertices(buckets[k].commands)

\* Two buckets, the first of which is flushed in the middle: three draw
\* calls at least, two of them under the first texture
C31_Witness ==
    /\ lastOp = "end"
    /\ Len(buckets) = 2
    /\ Cardinality({a \in DrawsOfEnd :
            LastBind(a) # 0 /\ glCalls[LastBind(a)].texture = buckets[1].texture}) >= 2
    /\ DrawnUnder(buckets[2].texture) # <<>>
    /\ DrawnUnder(buckets[1].texture) # DrawnUnder(buckets[2].texture)

----------------------------------------------------------------------------
(* SpriteBatch: what end() leaves behind *)

\* The command objects held by the buckets
CommandIds(b) == UNION {{b[k].commands[i].id : i \in 1..Len(b[k].commands)} :
                        k \in 1..Len(b)}

\* The command objects the last end() replayed
ReplayedIds == {replayed[a].id : a \in 1..Len(replayed)} \ {0}

\* C32: end() leaves the buckets as they are.  An end() that follows an end()
\* makes the calls of the previous one again; a command recorded after an
\* end() joins the commands already held, and the next end() replays them all.
C32_EndKeepsBuckets ==
    [][/\ (steps' = steps + 1 /\ lastOp' = "end") =>
            /\ buckets' = buckets
            /\ ReplayedIds' = CommandIds(buckets)
            /\ (lastOp = "end" =>
                    /\ replayed' = replayed
                    /\ glCalls' = glCalls)
       /\ (steps' = steps + 1 /\ lastOp' \in RecorderNames) =>
            /\ CommandIds(buckets') = CommandIds(buckets) \cup {nextId}
            /\ nextId \notin CommandIds(buckets)
      ]_vars

\* A command has been recorded after an end() and without a begin(): the
\* buckets hold it together with the command that end() replayed
C32_Witness ==
    /\ lastOp \in RecorderNames
    /\ phase = "stale"
    /\ ReplayedIds # {}
    /\ ReplayedIds \subseteq CommandIds(buckets)
    /\ CommandIds(buckets) \ ReplayedIds = {nextId - 1}
    /\ Len(buckets) = 1

----------------------------------------------------------------------------
(* Framebuffer: the attachment after an attach call *)

AttachCalls == {"framebufferTexture2D", "framebufferRenderbuffer"}

\* The last operation was an attach call on a framebuffer that was given a
\* resource whose handle was live
AttachedLive ==
    /\ gpuOp.method \in {"attachTexture", "attachRenderbuffer"}
    /\ ~gpu.thrown
    /\ \E i \in 1..Len(gpu.calls) :
          gpu.calls[i].call \in AttachCalls /\ gpu.calls[i].h # Null

\* What the attach call was given is what was attached before it
Reattached ==
    LET hist == AttachedTo(gpuOp.wrapper)
    IN  \E i \in 1..(Len(hist) - 1) :
            /\ hist[i] = hist[Len(hist)]
            /\ \A j \in (i + 1)..(Len(hist) - 1) : hist[j] = hist[i]

\* C33: after attachTexture or attachRenderbuffer, given a live resource,
\* the framebuffer's attachment has a live handle, also when the resource
\* given is the one the framebuffer already holds.
C33_AttachmentLive ==
    AttachedLive =>
        Handle(gpu, gpu.objs[gpuOp.wrapper].attachment) # Null

\* The attachment is live after the call unless the resource given is the one
\* the framebuffer held: then the call has deleted it.
C33_AttachmentLiveUnlessReattached ==
    AttachedLive =>
        (Handle(gpu, gpu.objs[gpuOp.wrapper].attachment) # Null <=> ~Reattached)

----------------------------------------------------------------------------
(* ShaderProgram: the shader objects its constructor creates *)

\* The shader objects the last operation created
ShadersCreated ==
    {gpu.calls[i].h : i \in {j \in 1..Len(gpu.calls) :
                                gpu.calls[j].call = "createShader"}}

\* The shader objects the last operation gave to deleteShader
ShadersDeleted ==
    {gpu.calls[i].h : i \in {j \in 1..Len(gpu.calls) :
                                gpu.calls[j].call = "deleteShader"}}

\* C34: when new ShaderProgram(...) has returned or raised, every shader
\* object it created has been deleted, whether the construction succeeded,
\* a shader failed to compile or the program failed to link.
C34_NoShaderOutlives ==
    gpuOp.method = "new ShaderProgram" =>
        /\ ShadersCreated # {}
        /\ ShadersCreated \subseteq ShadersDeleted

\* The constructor deletes the two shaders when it returns, and no shader
\* when it raises.
C34_ShadersDeletedOnSuccessOnly ==
    gpuOp.method = "new ShaderProgram" =>
        /\ ShadersCreated # {}
        /\ ~gpu.thrown => ShadersDeleted = ShadersCreated
        /\ gpu.thrown => ShadersDeleted = {}

----------------------------------------------------------------------------
(* The page: what an animation frame finds *)

\* Each of the four framebuffers holds a live attachment and has the
\* renderer's width and height
FramebuffersReady ==
    \A fb \in Framebuffers :
        /\ fb \in DOMAIN gpu.objs
        /\ Handle(gpu, fb) # Null
        /\ gpu.objs[fb].attachment \in DOMAIN gpu.objs
        /\ Handle(gpu, gpu.objs[fb].attachment) # Null
        /\ \A i \in 1..Len(gpu.freed) : gpu.freed[i] # gpu.objs[fb].attachment
        /\ <<gpu.objs[fb].width, gpu.objs[fb].height>> = <<game.width, game.height>>

\* C35: whatever resize events and animation frames have followed main(),
\* an animation frame finds each of the four framebuffers with a live
\* attachment and with the renderer's width and height, and leaves them so;
\* no frame runs before the resize() of main.
C35_TickFindsFramebuffersReady ==
    [][(steps' = steps + 1 /\ lastOp' = "update") =>
            /\ game.stage = "running"
            /\ lastOp \in {"main", "resize", "update"}
            /\ FramebuffersReady
            /\ FramebuffersReady']_vars

\* A frame that follows a resize event: every framebuffer is on its second
\* attachment
C35_Witness ==
    /\ lastOp = "update"
    /\ steps = 3
    /\ \A fb \in Framebuffers : Len(AttachedBefore(fb)) = 2
    /\ FramebuffersReady

----------------------------------------------------------------------------
(* game.js: the tiles of one type that touch a tile                         *)

\* The tile grids: rows of TILES_COLUMNS tiles; the first MaxFloodCells
\* tiles of the first FloodWidth columns are empty or sand, in every
\* combination, the others are blocks
FloodRows == (MaxFloodCells + FloodWidth - 1) \div FloodWidth

FloodGrids ==
    { [i \in 1..(FloodRows * TILES_COLUMNS) |->
          LET x == (i - 1) % TILES_COLUMNS
              y == (i - 1) \div TILES_COLUMNS
          IN  IF x < FloodWidth /\ x + y * FloodWidth < MaxFloodCells
              THEN cells[x + y * FloodWidth + 1] ELSE TILE_BLOCK] :
        cells \in [1..MaxFloodCells -> {0, 1}] }

\* getTileAt(x, y) for whole x and y; the tile of source index i is tiles[i + 1]
getTileAt(tiles, x, y) ==
    IF x < 0 \/ y < 0 \/ x > TILES_COLUMNS THEN 0
    ELSE IF x + y * TILES_COLUMNS >= Len(tiles) THEN 0
    ELSE tiles[x + y * TILES_COLUMNS + 1]

Pop_peek(queue) == queue

\* The queue after queue.pop()
Pop(queue) == SubSeq(queue, 1, Len(queue) - 1)

\* One iteration of while (queue.length): the index popped is dropped when
\* its tile is of another type; otherwise the tile joins the result, its
\* neighbours that `checked` does not include are pushed (left, right, up,
\* down; down whatever the row), and its index joins `checked`
Iterate(f) ==
    LET tileIndex == f.queue[Len(f.queue)]
        queue == Pop(f.queue)
        tileX == tileIndex % TILES_COLUMNS
        tileY == tileIndex \div TILES_COLUMNS
        tileTypeId == getTileAt(f.tiles, tileX, tileY)
        Unchecked(i) == \A k \in 1..Len(f.checked) : f.checked[k] # i
        PushedIf(test, i) == IF test /\ Unchecked(i) THEN <<i>> ELSE << >>
    IN  IF tileTypeId # f.typeId THEN [f EXCEPT !.queue = queue]
        ELSE [f EXCEPT
                !.result = Append(@, [x |-> tileX, y |-> tileY,
                                      index |-> tileIndex,
                                      typeId |-> tileTypeId]),
                !.queue = queue
                          \o PushedIf(tileX > 0, tileIndex - 1)
                          \o PushedIf(tileX < TILES_COLUMNS - 1, tileIndex + 1)
                          \o PushedIf(tileY > 0, tileIndex - TILES_COLUMNS)
                          \o PushedIf(TRUE, tileIndex + TILES_COLUMNS),
                !.checked = Append(@, tileIndex)]

floodOnly == <<rendererVars, batchVars, lastOp, steps, gpu, gpuOp, textOp,
               fonts, game, shapeOp>>

\* getAdjacentTilesOfSameType(x, y) is called on a tile that is not empty,
\* as breakTile does, and reaches its loop
getAdjacentTilesOfSameType_call ==
    \E tiles \in FloodGrids, x \in 0..TILES_COLUMNS, y \in 0..(FloodRows - 1) :
        /\ flood.pc = "idle"
        /\ getTileAt(tiles, x, y) # 0
        /\ flood' = [pc |-> "loop", tiles |-> tiles, x |-> x, y |-> y,
                     typeId |-> getTileAt(tiles, x, y),
                     queue |-> <<x + y * TILES_COLUMNS>>,
                     checked |-> << >>, result |-> << >>]
        /\ UNCHANGED floodOnly

getAdjacentTilesOfSameType_loop ==
    /\ flood.pc = "loop"
    /\ flood.queue # << >>
    /\ flood' = Iterate(flood)
    /\ UNCHANGED floodOnly

\* return result
getAdjacentTilesOfSameType_return ==
    /\ flood.pc = "loop"
    /\ flood.queue = << >>
    /\ flood' = [flood EXCEPT !.pc = "returned"]
    /\ UNCHANGED floodOnly

NextFlood ==
    \/ getAdjacentTilesOfSameType_call
    \/ getAdjacentTilesOfSameType_loop
    \/ getAdjacentTilesOfSameType_return

\* The function runs on once it is called: nothing else runs meanwhile
SpecFlood ==
    /\ Init
    /\ [][NextFlood]_vars
    /\ WF_vars(getAdjacentTilesOfSameType_loop)
    /\ WF_vars(getAdjacentTilesOfSameType_return)

\* The tiles of the result, each counted once
FloodRegion == {flood.result[i].index : i \in 1..Len(flood.result)}

\* C36: a call of getAdjacentTilesOfSameType on a tile that is not empty
\* comes to its return with the queue empty, whatever the grid and whatever
\* the shape of the region of tiles of that type around the tile.
C36_Terminates ==
    (flood.pc = "loop") ~> (flood.pc = "returned" /\ flood.queue = << >>)

\* The call has returned from a region of sand that holds a square of four
\* tiles: a tile was pushed twice before it was checked and was visited twice
C36_Witness ==
    /\ flood.pc = "returned"
    /\ flood.typeId = 1
    /\ {0, 1, TILES_COLUMNS, TILES_COLUMNS + 1} \subseteq FloodRegion
    /\ Len(flood.result) > Cardinality(FloodRegion)

============================================================================
